---- MODULE Spec2Model ----
(***************************************************************************)
(* A model of the chunking-and-merging core of video-transcribe:           *)
(*   audio/chunker.py     split_audio, _split_by_time, cleanup_chunks      *)
(*   transcribe/merger.py merge_results, _renumber_speakers                *)
(*   transcribe/adapter.py OpenAIAdapter.transcribe_chunked                *)
(*                                                                         *)
(* Times are whole milliseconds as in the code (len(audio), start_ms,      *)
(* end_ms); the float seconds that are inputs (overlap_sec) are fractions  *)
(* of a millisecond, TicksPerMs ticks to the millisecond, so that int()    *)
(* truncates something.  File sizes are counted in units of which          *)
(* SizeUnitsPerMB make one MB.  Arithmetic on seconds is exact (rational), *)
(* not IEEE floating point.                                                *)
(***************************************************************************)
EXTENDS Integers, Sequences, FiniteSets, TLC

(***************************************************************************)
(* Bounds of the model.                                                    *)
(***************************************************************************)
TicksPerMs == 2
SizeUnitsPerMB == 2
MaxStSize == 6
MaxSizeMb == 2
MaxDurationMs == 12
MaxOverlapTicks == 4

None == "None"

(***************************************************************************)
(* Paths.  A path is a sequence of components; a component is a record     *)
(* [stem, chunk, suffix]: chunk = -1 for a plain name, and chunk = i >= 0  *)
(* stands for the name f"{stem}_chunk_{i:03d}{suffix}".  The component     *)
(* Dot is "." which pathlib drops when it builds a Path.                   *)
(***************************************************************************)
Name(stem, suffix) == [stem |-> stem, chunk |-> -1, suffix |-> suffix]
Dot == Name(".", "")

\* str(Path(p)): pathlib's normal form of the spelling p
PathStr(p) == SelectSeq(p, LAMBDA c : c # Dot)

\* Path(p).stem and Path(p).suffix: those of the last component
Stem(p) == p[Len(p)].stem
Suffix(p) == p[Len(p)].suffix

\* faulty variant: the chunk files of a source go into a directory of their own,
\* named after the directory of the source
ChunkPathPerSourceDir(scratchpad, audio_file, i) ==
    Append(Append(scratchpad, audio_file[1]),
           [stem |-> Stem(audio_file), chunk |-> i, suffix |-> Suffix(audio_file)])

\* scratchpad / f"{audio_file.stem}_chunk_{i:03d}{audio_file.suffix}"
ChunkPath(scratchpad, audio_file, i) ==
    Append(scratchpad, [stem |-> Stem(audio_file), chunk |-> i, suffix |-> Suffix(audio_file)])

\* Path(tempfile.gettempdir()) / "video-transcribe-chunks"
DefaultScratchpad == << Name("tmp", ""), Name("video-transcribe-chunks", "") >>

\* int(x) for the rational x = num / den, den > 0: truncation toward zero
TruncDiv(num, den) == IF num >= 0 THEN num \div den ELSE -((-num) \div den)

Min(a, b) == IF a <= b THEN a ELSE b

NoDir == << >>

(***************************************************************************)
(* State.                                                                  *)
(*   files, dirs     the file system: the paths of the existing files and  *)
(*                   directories                                           *)
(*   audio_path .. scratchpad_dir                                          *)
(*                   the arguments of split_audio and what the file is:    *)
(*                   its size (st_size), its decoded length in ms          *)
(*                   (duration_ms = len(audio), also what ffprobe reports) *)
(*   pc .. ret       split_audio's position, its locals and its outcome    *)
(*   cl_chunks .. cl_pc   cleanup_chunks' argument, loop index, position   *)
(*   cl_files0, cl_raised (history) the files when cleanup_chunks was      *)
(*                   first called; the positions whose unlink raised in    *)
(*                   the current call                                      *)
(*   results .. merged    merge_results' arguments, position and outcome   *)
(*   alloc_num, alloc_id  _renumber_speakers' next_speaker_num and the     *)
(*                   new_id it allocated last                              *)
(*   cl_calls, cl_prev_ok (history) the calls of cleanup_chunks before the *)
(*                   current one; whether no unlink of the last raised     *)
(*   dpc .. dret     split_audio_by_duration's position, its arguments     *)
(*                   max_duration_sec and overlap_sec, and its outcome     *)
(*   opc .. o_ret    transcribe_chunked's position, whether it was given a *)
(*                   progress_callback, its model and response_format,     *)
(*                   whether it was given a prompt, its chunks, its loop   *)
(*                   index, the outcome that waits for the finally clause  *)
(*                   and its outcome; its results, chunk_offsets and       *)
(*                   has_diarization are those handed to merge_results     *)
(*   events          (history) what transcribe_chunked did, in order       *)
(*   other_pc, other_i    another run of split_audio and cleanup_chunks in *)
(*                   another process: its position and its loop index      *)
(*   clobbered       (history) the existing files the other run's exports  *)
(*                   wrote over                                            *)
(***************************************************************************)
VARIABLES files, dirs,
          audio_path, st_size, max_size_mb, overlap_ticks, duration_ms, scratchpad_dir,
          pc, chunk_duration_ms, overlap_ms, start_ms, chunks, chunk_results, ret,
          cl_chunks, cl_i, cl_pc, cl_files0, cl_raised,
          results, chunk_offsets, has_diarization, mpc, merged,
          alloc_num, alloc_id,
          cl_calls, cl_prev_ok,
          dpc, max_duration_ticks, d_overlap_ticks, dret,
          opc, has_callback, o_model, o_format, prompt, o_chunks, o_i, o_pending, o_ret, events,
          other_pc, other_i, clobbered

fsvars == << files, dirs >>
argvars == << audio_path, st_size, max_size_mb, overlap_ticks, duration_ms, scratchpad_dir >>
locvars == << chunk_duration_ms, overlap_ms, start_ms, chunks, chunk_results >>
pvars == << argvars, pc, locvars, ret >>
cvars == << cl_chunks, cl_i, cl_pc, cl_files0, cl_raised >>
mvars == << results, chunk_offsets, has_diarization, mpc, merged >>
avars == << alloc_num, alloc_id >>
rvars == << cl_calls, cl_prev_ok >>
dvars == << dpc, max_duration_ticks, d_overlap_ticks, dret >>
ovars == << opc, has_callback, o_model, o_format, prompt, o_chunks, o_i, o_pending, o_ret, events >>
othervars == << other_pc, other_i, clobbered >>
vars == << fsvars, pvars, cvars, mvars, avars, rvars, dvars, ovars, othervars >>

(***************************************************************************)
(* AudioChunk (chunker.py).  start_sec, end_sec and original_duration_sec  *)
(* hold the time as its number of milliseconds (the code divides the ms    *)
(* by 1000.0).                                                             *)
(***************************************************************************)
AudioChunk(path, index, start, end, original, is_temp) ==
    [path |-> path, index |-> index, start_sec |-> start, end_sec |-> end,
     original_duration_sec |-> original, is_temp |-> is_temp]

Raise(kind, what) == [kind |-> "raise", exc |-> kind, what |-> what, value |-> << >>]
Return(value) == [kind |-> "return", exc |-> None, what |-> None, value |-> value]
NoOutcome == [kind |-> "none", exc |-> None, what |-> None, value |-> << >>]

(***************************************************************************)
(* split_audio and _split_by_time (chunker.py).                            *)
(***************************************************************************)
audio_file == PathStr(audio_path)

\* faulty variant: the threshold itself excluded: file_size_mb < max_size_mb
NoChunkingNeededStrict == st_size < max_size_mb * SizeUnitsPerMB

\* file_size_mb <= max_size_mb, with file_size_mb = st_size / (1024 * 1024)
NoChunkingNeeded == st_size <= max_size_mb * SizeUnitsPerMB

\* chunk_duration_sec = (max_size_mb / file_size_mb) * duration_sec, in ms, as the
\* fraction ChunkDurationNum / ChunkDurationDen
ChunkDurationNum == max_size_mb * SizeUnitsPerMB * duration_ms
ChunkDurationDen == st_size

\* faulty variant: the overlap not taken off the chunk duration: int(chunk_duration_sec * 1000)
CalcChunkDurationMsOverlapOnTop == TruncDiv(ChunkDurationNum, ChunkDurationDen)

\* int((chunk_duration_sec - overlap_sec) * 1000)
CalcChunkDurationMs ==
    TruncDiv(ChunkDurationNum * TicksPerMs - overlap_ticks * ChunkDurationDen,
             ChunkDurationDen * TicksPerMs)

\* faulty variant: the overlap rounded up to whole milliseconds
CalcOverlapMsRoundedUp == (overlap_ticks + TicksPerMs - 1) \div TicksPerMs

\* int(overlap_sec * 1000)
CalcOverlapMs == TruncDiv(overlap_ticks, TicksPerMs)

\* faulty variant: the end not clamped to the length of the audio
EndMsUnclamped(start, step, overlap, len) == start + step + overlap

\* faulty variant: the overlap taken off the window instead of added to the step
EndMsOverlapSubtracted(start, step, overlap, len) == Min(start + step - overlap, len)

\* min(start_ms + chunk_duration_ms + overlap_ms, len(audio))
EndMs(start, step, overlap, len) == Min(start + step + overlap, len)

\* faulty variant: the loop stops when less than a whole step is left
TinyFinalChunkWholeStep(start, step, len) == len - start < step

\* len(audio) - start_ms < chunk_duration_ms // 2, start_ms already advanced
TinyFinalChunk(start, step, len) == len - start < step \div 2

\* scratchpad_dir is None (modelled as the empty path): the system temp directory
Scratchpad == IF scratchpad_dir = NoDir THEN DefaultScratchpad ELSE PathStr(scratchpad_dir)

\* if not audio_file.exists(): raise FileNotFoundError
FileNotFound ==
    /\ pc = "call"
    /\ audio_file \notin files
    /\ pc' = "raised"
    /\ ret' = Raise("FileNotFoundError", "not found")
    /\ UNCHANGED << fsvars, argvars, locvars, cvars, mvars, avars, rvars, dvars, othervars, ovars >>

\* size at or under the threshold: one chunk, the original file
NoSplit ==
    /\ pc = "call"
    /\ audio_file \in files
    /\ NoChunkingNeeded
    /\ pc' = "done"
    /\ ret' = Return(<< AudioChunk(audio_file, 0, 0, duration_ms, duration_ms, FALSE) >>)
    /\ UNCHANGED << fsvars, argvars, locvars, cvars, mvars, avars, rvars, dvars, othervars, ovars >>

\* _get_audio_duration: ffmpeg.probe fails
ProbeFails ==
    /\ pc = "call"
    /\ audio_file \in files
    /\ NoChunkingNeeded
    /\ pc' = "raised"
    /\ ret' = Raise("RuntimeError", "probe")
    /\ UNCHANGED << fsvars, argvars, locvars, cvars, mvars, avars, rvars, dvars, othervars, ovars >>

\* AudioSegment.from_file fails
LoadFails ==
    /\ pc = "call"
    /\ audio_file \in files
    /\ ~NoChunkingNeeded
    /\ pc' = "raised"
    /\ ret' = Raise("RuntimeError", "load")
    /\ UNCHANGED << fsvars, argvars, locvars, cvars, mvars, avars, rvars, dvars, othervars, ovars >>

\* _split_by_time, lines 140-150: chunk_duration_ms <= 0
OverlapTooLarge ==
    /\ pc = "call"
    /\ audio_file \in files
    /\ ~NoChunkingNeeded
    /\ CalcChunkDurationMs <= 0
    /\ pc' = "raised"
    /\ ret' = Raise("RuntimeError", "overlap")
    /\ UNCHANGED << fsvars, argvars, locvars, cvars, mvars, avars, rvars, dvars, othervars, ovars >>

\* _split_by_time, lines 140-153: the loop is entered
EnterLoop ==
    /\ pc = "call"
    /\ audio_file \in files
    /\ ~NoChunkingNeeded
    /\ CalcChunkDurationMs > 0
    /\ chunk_duration_ms' = CalcChunkDurationMs
    /\ overlap_ms' = CalcOverlapMs
    /\ start_ms' = 0
    /\ chunks' = << >>
    /\ pc' = "loop"
    /\ UNCHANGED << fsvars, argvars, chunk_results, ret, cvars, mvars, avars, rvars, dvars, othervars, ovars >>

\* faulty variant: the cursor moves on by half a step (at least 1 ms)
LoopIterationHalfStep ==
    /\ pc = "loop"
    /\ start_ms < duration_ms
    /\ chunks' = Append(chunks, << start_ms, EndMs(start_ms, chunk_duration_ms, overlap_ms, duration_ms) >>)
    /\ start_ms' = start_ms + (IF chunk_duration_ms >= 2 THEN chunk_duration_ms \div 2 ELSE 1)
    /\ pc' = IF TinyFinalChunk(start_ms', chunk_duration_ms, duration_ms) THEN "mkdir" ELSE "loop"
    /\ UNCHANGED << fsvars, argvars, chunk_duration_ms, overlap_ms, chunk_results, ret, cvars, mvars, avars, rvars, dvars, othervars, ovars >>

\* one iteration of the while loop, lines 155-164
LoopIteration ==
    /\ pc = "loop"
    /\ start_ms < duration_ms
    /\ chunks' = Append(chunks, << start_ms, EndMs(start_ms, chunk_duration_ms, overlap_ms, duration_ms) >>)
    /\ start_ms' = start_ms + chunk_duration_ms
    /\ pc' = IF TinyFinalChunk(start_ms', chunk_duration_ms, duration_ms) THEN "mkdir" ELSE "loop"
    /\ UNCHANGED << fsvars, argvars, chunk_duration_ms, overlap_ms, chunk_results, ret, cvars, mvars, avars, rvars, dvars, othervars, ovars >>

\* the while condition fails
LoopExit ==
    /\ pc = "loop"
    /\ ~(start_ms < duration_ms)
    /\ pc' = "mkdir"
    /\ UNCHANGED << fsvars, argvars, locvars, ret, cvars, mvars, avars, rvars, dvars, othervars, ovars >>

\* lines 95-103: scratchpad.mkdir(parents=True, exist_ok=True)
MakeScratchpad ==
    /\ pc = "mkdir"
    /\ dirs' = dirs \cup { SubSeq(Scratchpad, 1, n) : n \in 1..Len(Scratchpad) }
    /\ chunk_results' = << >>
    /\ pc' = "export"
    /\ UNCHANGED << files, argvars, chunk_duration_ms, overlap_ms, start_ms, chunks, ret, cvars, mvars, avars, rvars, dvars, othervars, ovars >>

NextChunkPath == ChunkPath(Scratchpad, audio_file, Len(chunk_results))

\* faulty variant: a chunk is not temporary unless said so
IsTempDefaultFalse == FALSE

\* AudioChunk.is_temp: bool = True, which the AudioChunk(...) of line 116 leaves out
IsTempDefault == TRUE

\* lines 104-122: chunk i is exported and appended
ExportChunk ==
    /\ pc = "export"
    /\ Len(chunk_results) < Len(chunks)
    /\ LET i == Len(chunk_results)
           b == chunks[i + 1]
       IN  /\ files' = files \cup { NextChunkPath }
           /\ chunk_results' = Append(chunk_results,
                  AudioChunk(NextChunkPath, i, b[1], b[2], duration_ms, IsTempDefault))
    /\ UNCHANGED << dirs, argvars, pc, chunk_duration_ms, overlap_ms, start_ms, chunks, ret, cvars, mvars, avars, rvars, dvars, othervars, ovars >>

\* lines 110-114: the export of chunk i fails (it may leave a partial file); the
\* chunks exported so far are unlinked and RuntimeError is raised
ExportFails ==
    /\ pc = "export"
    /\ Len(chunk_results) < Len(chunks)
    /\ \E partial \in BOOLEAN :
         files' = ((files \cup (IF partial THEN { NextChunkPath } ELSE {}))
                     \ { chunk_results[k].path : k \in 1..Len(chunk_results) })
    /\ pc' = "raised"
    /\ ret' = Raise("RuntimeError", "export")
    /\ UNCHANGED << dirs, argvars, locvars, cvars, mvars, avars, rvars, dvars, othervars, ovars >>

\* lines 110-113: the export of chunk i fails and then, in the rollback, the unlink
\* of exported chunk n + 1 raises (PermissionError and the like; nothing catches
\* it): chunks 1..n are unlinked, the others stay, and that error is raised
ExportRollbackFails ==
    /\ pc = "export"
    /\ Len(chunk_results) < Len(chunks)
    /\ \E partial \in BOOLEAN, n \in 0..(Len(chunk_results) - 1) :
         files' = ((files \cup (IF partial THEN { NextChunkPath } ELSE {}))
                     \ { chunk_results[k].path : k \in 1..n })
    /\ pc' = "raised"
    /\ ret' = Raise("OSError", "rollback")
    /\ UNCHANGED << dirs, argvars, locvars, cvars, mvars, avars, rvars, dvars, othervars, ovars >>

\* line 124: return chunk_results
ReturnChunks ==
    /\ pc = "export"
    /\ Len(chunk_results) = Len(chunks)
    /\ pc' = "done"
    /\ ret' = Return(chunk_results)
    /\ UNCHANGED << fsvars, argvars, locvars, cvars, mvars, avars, rvars, dvars, othervars, ovars >>


(***************************************************************************)
(* cleanup_chunks (chunker.py), one chunk of the list per step.            *)
(* Path.unlink(missing_ok=True) removes the file, does nothing when the    *)
(* file is missing, and can raise (PermissionError and the like): the      *)
(* except clause swallows that and the file stays.                         *)
(***************************************************************************)
\* faulty variant: no chunk is skipped
SkipsChunkNever(chunk) == FALSE

\* if not chunk.is_temp: continue
SkipsChunk(chunk) == ~chunk.is_temp

CurrentChunk == cl_chunks[cl_i + 1]

CleanupSkip ==
    /\ cl_pc = "loop"
    /\ cl_i < Len(cl_chunks)
    /\ SkipsChunk(CurrentChunk)
    /\ cl_i' = cl_i + 1
    /\ UNCHANGED << fsvars, pvars, cl_chunks, cl_pc, cl_files0, cl_raised, mvars, avars, rvars, dvars, othervars, ovars >>

CleanupUnlink ==
    /\ cl_pc = "loop"
    /\ cl_i < Len(cl_chunks)
    /\ ~SkipsChunk(CurrentChunk)
    /\ files' = files \ { PathStr(CurrentChunk.path) }
    /\ cl_i' = cl_i + 1
    /\ UNCHANGED << dirs, pvars, cl_chunks, cl_pc, cl_files0, cl_raised, mvars, avars, rvars, dvars, othervars, ovars >>

\* faulty variant: no except clause, the error of unlink leaves cleanup_chunks
CleanupUnlinkRaisesUncaught ==
    /\ cl_pc = "loop"
    /\ cl_i < Len(cl_chunks)
    /\ ~SkipsChunk(CurrentChunk)
    /\ PathStr(CurrentChunk.path) \in files
    /\ cl_raised' = cl_raised \cup { cl_i + 1 }
    /\ cl_pc' = "raised"
    /\ UNCHANGED << fsvars, pvars, cl_chunks, cl_i, cl_files0, mvars, avars, rvars, dvars, othervars, ovars >>

CleanupUnlinkRaises ==
    /\ cl_pc = "loop"
    /\ cl_i < Len(cl_chunks)
    /\ ~SkipsChunk(CurrentChunk)
    /\ PathStr(CurrentChunk.path) \in files
    /\ cl_raised' = cl_raised \cup { cl_i + 1 }
    /\ cl_i' = cl_i + 1
    /\ UNCHANGED << fsvars, pvars, cl_chunks, cl_pc, cl_files0, mvars, avars, rvars, dvars, othervars, ovars >>

CleanupReturn ==
    /\ cl_pc = "loop"
    /\ cl_i = Len(cl_chunks)
    /\ cl_pc' = "done"
    /\ UNCHANGED << fsvars, pvars, cl_chunks, cl_i, cl_files0, cl_raised, mvars, avars, rvars, dvars, othervars, ovars >>

(***************************************************************************)
(* The planner's specification: one call of split_audio on every input of  *)
(* the bounded sets.  The audio has positive length; the overlap is not    *)
(* negative (config.validate_config).                                      *)
(***************************************************************************)
InputDir == Name("in", "")
InputFile == << InputDir, Name("a", ".mp3") >>
AudioPaths == { InputFile, << Dot, InputDir, Name("a", ".mp3") >>, << InputDir, Name("gone", ".mp3") >> }
ScratchpadDirs == { NoDir, << Name("work", "") >>, << Name("work", ""), Dot >>, << InputDir >> }

\* test_chunker.py, test_overlap_within_limit: 90 s of audio, 30 s chunks, 2 s overlap
OverlapWithinLimitCase(mb) ==
    [duration_ms |-> 90000, st_size |-> 3 * mb * SizeUnitsPerMB, overlap_ticks |-> 2000 * TicksPerMs]

SmallCases(mb) ==
    [duration_ms : 1..MaxDurationMs, st_size : 1..MaxStSize, overlap_ticks : 0..MaxOverlapTicks]

IdleCleanup ==
    /\ cl_chunks = << >>
    /\ cl_i = 0
    /\ cl_pc = "idle"
    /\ cl_files0 = {}
    /\ cl_raised = {}
    /\ cl_calls = 0
    /\ cl_prev_ok = TRUE

IdleMerge ==
    /\ results = << >>
    /\ chunk_offsets = << >>
    /\ has_diarization = FALSE
    /\ mpc = "idle"
    /\ merged = NoOutcome

IdleAllocation ==
    /\ alloc_num = 0
    /\ alloc_id = << >>

IdleDurationPlanner ==
    /\ dpc = "idle"
    /\ max_duration_ticks = 0
    /\ d_overlap_ticks = 0
    /\ dret = NoOutcome

IdleChunked ==
    /\ opc = "idle"
    /\ has_callback = FALSE
    /\ o_model = "gpt-4o-transcribe"
    /\ o_format = "json"
    /\ prompt = FALSE
    /\ o_chunks = << >>
    /\ o_i = 0
    /\ o_pending = NoOutcome
    /\ o_ret = NoOutcome
    /\ events = << >>

IdleOtherRun ==
    /\ other_pc = "idle"
    /\ other_i = 0
    /\ clobbered = {}

IdlePlanner ==
    /\ audio_path = InputFile
    /\ st_size = 1
    /\ max_size_mb = 1
    /\ overlap_ticks = 0
    /\ duration_ms = 1
    /\ scratchpad_dir = NoDir
    /\ pc = "idle"
    /\ chunk_duration_ms = 0
    /\ overlap_ms = 0
    /\ start_ms = 0
    /\ chunks = << >>
    /\ chunk_results = << >>
    /\ ret = NoOutcome

Init ==
    /\ files = { InputFile }
    /\ dirs = { << InputDir >> }
    /\ audio_path \in AudioPaths
    /\ scratchpad_dir \in ScratchpadDirs
    /\ max_size_mb \in 1..MaxSizeMb
    /\ \E c \in SmallCases(max_size_mb) \cup { OverlapWithinLimitCase(max_size_mb) } :
         /\ duration_ms = c.duration_ms
         /\ st_size = c.st_size
         /\ overlap_ticks = c.overlap_ticks
    /\ pc = "call"
    /\ chunk_duration_ms = 0
    /\ overlap_ms = 0
    /\ start_ms = 0
    /\ chunks = << >>
    /\ chunk_results = << >>
    /\ ret = NoOutcome
    /\ IdleCleanup
    /\ IdleMerge
    /\ IdleAllocation
    /\ IdleDurationPlanner
    /\ IdleChunked
    /\ IdleOtherRun

Next ==
    \/ FileNotFound
    \/ NoSplit
    \/ ProbeFails
    \/ LoadFails
    \/ OverlapTooLarge
    \/ EnterLoop
    \/ LoopIteration
    \/ LoopExit
    \/ MakeScratchpad
    \/ ExportChunk
    \/ ExportFails
    \/ ExportRollbackFails
    \/ ReturnChunks

Spec == Init /\ [][Next]_vars

\* split_audio is sequential code: a loop of _split_by_time that can take its next
\* step, an iteration or the failing while test, takes it
SpecLoopFair == Spec /\ WF_vars(LoopIteration) /\ WF_vars(LoopExit)


(***************************************************************************)
(* Claims about the planner.  They read split_audio's outcome: the chunk   *)
(* list in ret.value once pc = "done".  ReturnedSplit is the split path:   *)
(* the file is over the threshold.                                         *)
(***************************************************************************)
OverThreshold == st_size > max_size_mb * SizeUnitsPerMB
Returned == pc = "done" /\ ret.kind = "return"
ReturnedSplit == Returned /\ OverThreshold
ReturnedNoSplit == Returned /\ ~OverThreshold
Span(c) == c.end_sec - c.start_sec

\* x, a whole number of ms, against the duration D = ChunkDurationNum / ChunkDurationDen
\* and the step D - o = StepNum / StepDen (exact fractions of a millisecond)
StepNum == ChunkDurationNum * TicksPerMs - overlap_ticks * ChunkDurationDen
StepDen == ChunkDurationDen * TicksPerMs

\* C1 (as claimed): the windows of a split cover [0, total_duration]: the first
\* starts at 0, each later one starts no later than the end of the one before it,
\* and the last ends at total_duration.
C1_WindowsCoverTimeline ==
    ReturnedSplit =>
        LET cs == ret.value
        IN  /\ Len(cs) >= 1
            /\ cs[1].start_sec = 0
            /\ \A k \in 2..Len(cs) : cs[k].start_sec <= cs[k - 1].end_sec
            /\ cs[Len(cs)].end_sec = duration_ms

\* C7: every returned chunk, split or not, has 0 <= start_sec < end_sec <=
\* original_duration_sec.
C7_ChunkWindowValid ==
    Returned =>
        \A k \in 1..Len(ret.value) :
            LET c == ret.value[k]
            IN  0 <= c.start_sec /\ c.start_sec < c.end_sec /\ c.end_sec <= c.original_duration_sec

\* C7's case: a split returned several chunks, the last clamped to the end of the
\* audio
C7_Witness ==
    /\ ReturnedSplit
    /\ Len(ret.value) >= 3
    /\ ret.value[Len(ret.value)].end_sec = duration_ms
    /\ ret.value[1].end_sec < duration_ms

\* C8 (as claimed): chunk i is the window [i*step, min(i*step + D, total)] with
\* the exact D and step = D - o.
C8_ExactWindows ==
    ReturnedSplit =>
        \A k \in 1..Len(ret.value) :
            LET c == ret.value[k]
                i == k - 1
            IN  /\ c.index = i
                /\ c.start_sec * StepDen = i * StepNum
                /\ \/ c.end_sec * StepDen = i * StepNum + ChunkDurationNum * TicksPerMs
                   \/ /\ c.end_sec = duration_ms
                      /\ duration_ms * StepDen <= i * StepNum + ChunkDurationNum * TicksPerMs

IsOverlapWithinLimitCase ==
    /\ duration_ms = OverlapWithinLimitCase(max_size_mb).duration_ms
    /\ st_size = OverlapWithinLimitCase(max_size_mb).st_size
    /\ overlap_ticks = OverlapWithinLimitCase(max_size_mb).overlap_ticks

\* C8 (amended): with step_ms = int((D - o) * 1000) and overlap_ms = int(o * 1000),
\* chunk i has index i and window [i*step_ms, min(i*step_ms + step_ms + overlap_ms,
\* total)]; no window is longer than D; 90 s with D = 30 s and o = 2 s gives
\* exactly 3 chunks starting at 0, 28 and 56 s.
C8_TruncatedWindows ==
    ReturnedSplit =>
        LET cs == ret.value
            step == TruncDiv(StepNum, StepDen)
            ovl == TruncDiv(overlap_ticks, TicksPerMs)
        IN  /\ \A k \in 1..Len(cs) :
                  /\ cs[k].index = k - 1
                  /\ cs[k].start_sec = (k - 1) * step
                  /\ cs[k].end_sec = Min((k - 1) * step + step + ovl, duration_ms)
                  /\ Span(cs[k]) * ChunkDurationDen <= ChunkDurationNum
            /\ IsOverlapWithinLimitCase =>
                  /\ Len(cs) = 3
                  /\ << cs[1].start_sec, cs[2].start_sec, cs[3].start_sec >> = << 0, 28000, 56000 >>
                  /\ << cs[1].end_sec, cs[2].end_sec, cs[3].end_sec >> = << 30000, 58000, 86000 >>

\* C8's case: the 90 s source was split
C8_Witness == ReturnedSplit /\ IsOverlapWithinLimitCase /\ Len(ret.value) = 3

\* C9 (as claimed): in a split of N > 1 chunks every chunk but the last spans at
\* least D - o.
C9_SpanAtLeastExactStep ==
    (ReturnedSplit /\ Len(ret.value) > 1) =>
        \A k \in 1..(Len(ret.value) - 1) : Span(ret.value[k]) * StepDen >= StepNum

\* C9 (amended): in a split of N > 1 chunks every chunk but the last spans at
\* least int((D - o) * 1000) ms, the step truncated to whole milliseconds (so
\* more than D - o - 1 ms).
C9_SpanAtLeastTruncatedStep ==
    (ReturnedSplit /\ Len(ret.value) > 1) =>
        \A k \in 1..(Len(ret.value) - 1) :
            /\ Span(ret.value[k]) >= TruncDiv(StepNum, StepDen)
            /\ (Span(ret.value[k]) + 1) * StepDen > StepNum

\* C9's case: several chunks, a non-final one cut short by the end of the audio
C9_Witness ==
    /\ ReturnedSplit
    /\ Len(ret.value) > 1
    /\ \E k \in 1..(Len(ret.value) - 1) :
          /\ ret.value[k].end_sec = duration_ms
          /\ Span(ret.value[k]) < chunk_duration_ms + overlap_ms

\* C10: a file at or under the threshold comes back as one chunk: index 0,
\* is_temp false, window [0, probed duration], path the input path (in pathlib's
\* normal form); no file and no directory is created.
C10_NoSplitIdentity ==
    ReturnedNoSplit =>
        /\ Len(ret.value) = 1
        /\ ret.value[1].index = 0
        /\ ret.value[1].is_temp = FALSE
        /\ ret.value[1].start_sec = 0
        /\ ret.value[1].end_sec = duration_ms
        /\ ret.value[1].path = PathStr(audio_path)
        /\ ret.value[1].path \in files
        /\ files = { InputFile }
        /\ dirs = { << InputDir >> }

\* C10's case: a file of exactly the threshold size, given by a spelling with "."
C10_Witness ==
    /\ ReturnedNoSplit
    /\ st_size = max_size_mb * SizeUnitsPerMB
    /\ audio_path # PathStr(audio_path)
    /\ Len(ret.value) = 1

\* C11: a returned list has an entry with is_temp = false only if it has exactly
\* one element and no split happened; every chunk of a split has is_temp = true
\* and a path other than the input path.
C11_TempExactlyWhenSplit ==
    Returned =>
        /\ (\E k \in 1..Len(ret.value) : ~ret.value[k].is_temp) =>
              (Len(ret.value) = 1 /\ ~OverThreshold)
        /\ OverThreshold =>
              \A k \in 1..Len(ret.value) :
                  /\ ret.value[k].is_temp
                  /\ ret.value[k].path # audio_file
                  /\ ret.value[k].path # audio_path

\* C11's case: a split into several chunks, written into the directory of the input
C11_Witness ==
    /\ ReturnedSplit
    /\ Len(ret.value) >= 2
    /\ Scratchpad = << InputDir >>
    /\ \A k \in 1..Len(ret.value) : ret.value[k].path \in files

\* the chunk files of this call: what it names its chunks
OwnChunkPaths == { ChunkPath(Scratchpad, audio_file, i) : i \in 0..(Len(chunks) - 1) }

\* C16 (as claimed): when a failed export has raised, none of the chunk files of
\* this call exists and no chunk list is returned.
C16_NoChunkFileAfterExportFailure ==
    (pc = "raised" /\ ret.what \in { "export", "rollback" }) =>
        /\ ret.kind = "raise"
        /\ OwnChunkPaths \cap files = {}


\* C24 (as claimed): a window is emitted at a cursor only if total_duration -
\* cursor is at least half of max_chunk_duration (D, not the step D - o).
C24_EmittedOnlyWithHalfDurationLeft ==
    (pc \in { "loop", "mkdir", "export", "done" } /\ OverThreshold) =>
        \A k \in 1..Len(chunks) :
            (duration_ms - chunks[k][1]) * 2 * ChunkDurationDen >= ChunkDurationNum


\* C25 (as claimed): every window but the last spans exactly max_chunk_duration
\* (D), and every two consecutive windows share exactly overlap seconds, for every
\* valid overlap.
C25_OnlyFinalWindowShorter ==
    ReturnedSplit =>
        \A k \in 1..(Len(ret.value) - 1) :
            /\ Span(ret.value[k]) * ChunkDurationDen = ChunkDurationNum
            /\ (ret.value[k].end_sec - ret.value[k + 1].start_sec) * TicksPerMs = overlap_ticks

\* C25 (amended): with step_ms = int((D - o) * 1000) and overlap_ms = int(o * 1000),
\* every window spans min(step_ms + overlap_ms, total - start): a window is
\* shorter than step_ms + overlap_ms exactly when the end of the audio cuts it, and
\* that can be a window before the last.  Consecutive windows k, k + 1 share
\* min(overlap_ms, total - start of k + 1) ms: exactly overlap_ms when window k is
\* not cut, and all of window k + 1 when it is.
C25_WindowsShorterOnlyAtEndOfAudio ==
    ReturnedSplit =>
        LET cs == ret.value
            step == TruncDiv(StepNum, StepDen)
            ovl == TruncDiv(overlap_ticks, TicksPerMs)
        IN  /\ \A k \in 1..Len(cs) :
                  /\ Span(cs[k]) = Min(step + ovl, duration_ms - cs[k].start_sec)
                  /\ (Span(cs[k]) < step + ovl) <=> (cs[k].end_sec = duration_ms /\ cs[k].start_sec + step + ovl > duration_ms)
            /\ \A k \in 1..(Len(cs) - 1) :
                  /\ cs[k].end_sec - cs[k + 1].start_sec = Min(ovl, duration_ms - cs[k + 1].start_sec)
                  /\ (cs[k].end_sec < duration_ms) => (cs[k].end_sec - cs[k + 1].start_sec = ovl)
                  /\ (cs[k].end_sec = duration_ms) => (cs[k].end_sec - cs[k + 1].start_sec = Span(cs[k + 1]))

\* C25's case: an overlap larger than the step, a first pair of windows that share
\* exactly the overlap, and a window before the last that the end of the audio cuts
C25_Witness ==
    /\ ReturnedSplit
    /\ Len(ret.value) >= 4
    /\ overlap_ms > chunk_duration_ms
    /\ ret.value[1].end_sec < duration_ms
    /\ ret.value[1].end_sec - ret.value[2].start_sec = overlap_ms
    /\ \E k \in 2..(Len(ret.value) - 1) :
          /\ ret.value[k].end_sec = duration_ms
          /\ Span(ret.value[k]) < chunk_duration_ms + overlap_ms


\* the loop of _split_by_time has ended, and the break of the small-tail rule ended
\* it: the while condition still held, or the rest was under half a step
StoppedBySmallTail ==
    /\ pc \in { "mkdir", "export", "done" }
    /\ OverThreshold
    /\ \/ start_ms < duration_ms
       \/ duration_ms - start_ms < chunk_duration_ms \div 2

\* the audio after the end of the last window, in ms
Uncovered == duration_ms - chunks[Len(chunks)][2]

\* C29 (as claimed): after a stop by the small-tail rule the audio that no chunk
\* contains is max(0, remaining - overlap) long, remaining = total_duration - next
\* cursor, with the overlap as given (o, exact); it is shorter than half the step
\* D - o and empty when o is at least half the step.
C29_UncoveredTailExactOverlap ==
    StoppedBySmallTail =>
        LET remaining == duration_ms - start_ms
        IN  /\ Uncovered * TicksPerMs =
                  (IF remaining * TicksPerMs > overlap_ticks THEN remaining * TicksPerMs - overlap_ticks ELSE 0)
            /\ Uncovered * 2 * StepDen < StepNum
            /\ (overlap_ticks * 2 * StepDen >= StepNum * TicksPerMs) => (Uncovered = 0)

\* C29 (amended): the same with the loop's whole milliseconds: the uncovered
\* stretch is max(0, remaining - overlap_ms), overlap_ms = int(o * 1000); it is
\* shorter than half of step_ms = int((D - o) * 1000), and empty when overlap_ms is
\* at least half of step_ms (and so when o is at least half of D - o).
C29_UncoveredTailTruncatedOverlap ==
    StoppedBySmallTail =>
        LET remaining == duration_ms - start_ms
            step == TruncDiv(StepNum, StepDen)
            ovl == TruncDiv(overlap_ticks, TicksPerMs)
        IN  /\ Len(chunks) >= 1
            /\ Uncovered = (IF remaining > ovl THEN remaining - ovl ELSE 0)
            /\ Uncovered * 2 < step
            /\ (ovl * 2 >= step) => (Uncovered = 0)
            /\ (overlap_ticks * 2 * StepDen >= StepNum * TicksPerMs) => (Uncovered = 0)

\* C29's case: the rule stopped a split of several windows with a positive overlap
\* and left a stretch of audio in no chunk
C29_Witness ==
    /\ StoppedBySmallTail
    /\ pc = "done"
    /\ Len(chunks) >= 2
    /\ overlap_ms > 0
    /\ start_ms < duration_ms
    /\ Uncovered > 0
    /\ Uncovered = duration_ms - start_ms - overlap_ms


\* the windows emitted so far: at most ceil(total_duration / step) of them, step the
\* positive step int((D - o) * 1000) of the loop, with strictly increasing starts,
\* and at least one once the loop has been left
WindowsWithinBound ==
    (pc \in { "loop", "mkdir", "export", "done" } /\ OverThreshold) =>
        LET step == TruncDiv(StepNum, StepDen)
        IN  /\ step > 0
            /\ Len(chunks) <= (duration_ms + step - 1) \div step
            /\ \A k \in 1..(Len(chunks) - 1) : chunks[k][1] < chunks[k + 1][1]
            /\ (Len(chunks) >= 1) => (chunks[Len(chunks)][1] < start_ms)
            /\ (pc # "loop") => (Len(chunks) >= 1)

\* C30: for an audio of positive length and a positive step the boundary loop
\* terminates, after at least one and at most ceil(total_duration / step) windows
\* whose starts strictly increase.
C30_BoundaryLoopTerminates ==
    /\ []WindowsWithinBound
    /\ (pc = "loop") ~> (pc = "mkdir")

\* C30's case: the loop has ended after ceil(total_duration / step) windows, three
\* or more, the bound reached
C30_Witness ==
    /\ pc = "mkdir"
    /\ OverThreshold
    /\ Len(chunks) >= 3
    /\ Len(chunks) = (duration_ms + chunk_duration_ms - 1) \div chunk_duration_ms
    /\ \A k \in 1..(Len(chunks) - 1) : chunks[k][1] < chunks[k + 1][1]


(***************************************************************************)
(* The specification of cleanup_chunks: one call on every chunk list of    *)
(* at most MaxCleanupLen entries over three paths, the input file and two  *)
(* chunk files, each of which exists or not.                               *)
(***************************************************************************)
MaxCleanupLen == 3

CleanupPaths ==
    { InputFile, ChunkPath(DefaultScratchpad, InputFile, 0), ChunkPath(DefaultScratchpad, InputFile, 1) }

CleanupLists ==
    UNION { [1..n -> [path : CleanupPaths, is_temp : BOOLEAN]] : n \in 0..MaxCleanupLen }

InitCleanup ==
    /\ files \in SUBSET CleanupPaths
    /\ dirs = { << InputDir >>, DefaultScratchpad }
    /\ \E l \in CleanupLists :
         cl_chunks = [k \in 1..Len(l) |-> AudioChunk(l[k].path, k - 1, 0, 10, 10, l[k].is_temp)]
    /\ cl_i = 0
    /\ cl_pc = "loop"
    /\ cl_files0 = files
    /\ cl_raised = {}
    /\ cl_calls = 0
    /\ cl_prev_ok = TRUE
    /\ IdlePlanner
    /\ IdleMerge
    /\ IdleAllocation
    /\ IdleDurationPlanner
    /\ IdleChunked
    /\ IdleOtherRun

NextCleanup ==
    \/ CleanupSkip
    \/ CleanupUnlink
    \/ CleanupUnlinkRaises
    \/ CleanupReturn

SpecCleanup == InitCleanup /\ [][NextCleanup]_vars

TempPaths == { PathStr(cl_chunks[k].path) : k \in { j \in 1..Len(cl_chunks) : cl_chunks[j].is_temp } }
CleanupDone == cl_pc = "done"

\* C3 (as claimed): after cleanup_chunks the file of every is_temp = true entry is
\* gone and the file of every is_temp = false entry is as it was.
C3_DeletesAllTempOnly ==
    CleanupDone =>
        \A k \in 1..Len(cl_chunks) :
            LET p == PathStr(cl_chunks[k].path)
            IN  IF cl_chunks[k].is_temp THEN p \notin files
                ELSE (p \in files) = (p \in cl_files0)

\* C3 (amended): cleanup_chunks unlinks the paths of the is_temp = true entries
\* and no other path: afterwards the file of such an entry is gone unless its
\* unlink raised (which is swallowed), and every file whose path is not that of an
\* is_temp = true entry is as it was; so the file of an is_temp = false entry
\* survives unless the list also names its path with is_temp = true.
C3_UnlinksTempPathsOnly ==
    CleanupDone =>
        /\ \A k \in 1..Len(cl_chunks) :
              cl_chunks[k].is_temp =>
                  (PathStr(cl_chunks[k].path) \notin files \/ k \in cl_raised)
        /\ files \subseteq cl_files0
        /\ \A p \in cl_files0 \ TempPaths : p \in files
        /\ \A k \in 1..Len(cl_chunks) :
              (~cl_chunks[k].is_temp /\ PathStr(cl_chunks[k].path) \notin TempPaths) =>
                  ((PathStr(cl_chunks[k].path) \in files) = (PathStr(cl_chunks[k].path) \in cl_files0))

\* C3's case: a mixed list over existing files, the temp file deleted, the
\* original still there
C3_Witness ==
    /\ CleanupDone
    /\ \E j, k \in 1..Len(cl_chunks) :
          /\ cl_chunks[j].is_temp /\ ~cl_chunks[k].is_temp
          /\ cl_chunks[j].path \in cl_files0 /\ cl_chunks[j].path \notin files
          /\ cl_chunks[k].path \in cl_files0 /\ cl_chunks[k].path \in files


(***************************************************************************)
(* The specification of repeated cleanup: cleanup_chunks is called again   *)
(* and again on the same list, up to MaxCleanupCalls times.                *)
(***************************************************************************)
MaxCleanupCalls == 3

\* the caller calls cleanup_chunks(chunks) once more
CleanupAgain ==
    /\ cl_pc = "done"
    /\ cl_calls + 1 < MaxCleanupCalls
    /\ cl_calls' = cl_calls + 1
    /\ cl_prev_ok' = (cl_raised = {})
    /\ cl_raised' = {}
    /\ cl_i' = 0
    /\ cl_pc' = "loop"
    /\ UNCHANGED << fsvars, pvars, cl_chunks, cl_files0, mvars, avars, dvars, othervars, ovars >>

NextCleanupRepeat ==
    \/ CleanupSkip
    \/ CleanupUnlink
    \/ CleanupUnlinkRaises
    \/ CleanupReturn
    \/ CleanupAgain

SpecCleanupRepeat == InitCleanup /\ [][NextCleanupRepeat]_vars

\* C20 (as claimed): no call of cleanup_chunks raises, and every call after the
\* first changes nothing on the file system.
C20_LaterCallsChangeNothing ==
    [][/\ cl_pc' # "raised"
       /\ cl_calls >= 1 => (files' = files /\ dirs' = dirs)]_vars

\* C20 (amended): no call of cleanup_chunks raises, and a call that follows a call
\* in which no unlink failed changes nothing on the file system (a later call can
\* only remove what a failed unlink of the call before it left behind).
C20_CallAfterCleanCallChangesNothing ==
    [][/\ cl_pc' # "raised"
       /\ (cl_calls >= 1 /\ cl_prev_ok) => (files' = files /\ dirs' = dirs)]_vars

\* C20's case: a second call has returned, after a first call that deleted a
\* file and in which no unlink failed
C20_Witness ==
    /\ cl_calls = 1 /\ cl_pc = "done" /\ cl_prev_ok
    /\ \E k \in 1..Len(cl_chunks) :
          /\ cl_chunks[k].is_temp
          /\ cl_chunks[k].path \in cl_files0 \ files


(***************************************************************************)
(* merge_results and _renumber_speakers (merger.py).                       *)
(*                                                                         *)
(* An optional value (speaker, start, end, duration) is the empty set for  *)
(* None and {v} for v.  A speaker label is the sequence of its character   *)
(* codes: "A" is << 65 >>.  Segment times are whole numbers of a time      *)
(* unit.  A segment carries a history field, origin = << chunk, position   *)
(* >>, the place of the input segment it was made from.                    *)
(***************************************************************************)
Absent == {}
Some(v) == { v }
Get(o) == CHOOSE v \in o : TRUE

MaxAllocations == 703

OrdA == 65
OrdZ == 90
Chr(n) == << n >>
LabelA == Chr(OrdA)
LabelB == Chr(OrdA + 1)
LabelEmpty == << >>

TranscriptionSegment(speaker, start, end, text, origin) ==
    [speaker |-> speaker, start |-> start, end |-> end, text |-> text, origin |-> origin]

TranscriptionResult(text, duration, segments, model_used, response_format) ==
    [text |-> text, duration |-> duration, segments |-> segments,
     model_used |-> model_used, response_format |-> response_format]

\* segment.start + offset if segment.start is not None else None
Adjusted(t, offset) == IF t # Absent THEN Some(Get(t) + offset) ELSE Absent

\* faulty variant: the offset added to start only
AdjustedSegmentEndUnshifted(segment, offset, origin) ==
    TranscriptionSegment(segment.speaker, Adjusted(segment.start, offset),
                         segment.end, segment.text, origin)

\* lines 42-49: the adjusted copy of segment k of chunk i
AdjustedSegment(segment, offset, origin) ==
    TranscriptionSegment(segment.speaker, Adjusted(segment.start, offset),
                         Adjusted(segment.end, offset), segment.text, origin)

\* lines 38-50: the adjusted segments of chunks i.. in input order
RECURSIVE AllSegmentsFrom(_, _, _)
AllSegmentsFrom(rs, offsets, i) ==
    IF i > Len(rs) THEN << >>
    ELSE [k \in 1..Len(rs[i].segments) |->
              AdjustedSegment(rs[i].segments[k], offsets[i], << i, k >>)]
         \o AllSegmentsFrom(rs, offsets, i + 1)

\* list.sort(key=lambda s: s.start) compares keys with <, and None < x raises
\* TypeError; a list of two or more elements is compared at every element
SortRaises(segs) == Len(segs) >= 2 /\ \E k \in 1..Len(segs) : segs[k].start = Absent

\* faulty variant: an unstable sort: s goes before the elements of equal key
InsertByStartBeforeEqual(sorted, s) ==
    LET after == { k \in 1..Len(sorted) : Get(s.start) <= Get(sorted[k].start) }
        pos == IF after = {} THEN Len(sorted) + 1
               ELSE CHOOSE k \in after : \A j \in after : k <= j
    IN  SubSeq(sorted, 1, pos - 1) \o << s >> \o SubSeq(sorted, pos, Len(sorted))

\* the place of s in the sorted list: after every element whose key is not greater
InsertByStart(sorted, s) ==
    LET after == { k \in 1..Len(sorted) : Get(s.start) < Get(sorted[k].start) }
        pos == IF after = {} THEN Len(sorted) + 1
               ELSE CHOOSE k \in after : \A j \in after : k <= j
    IN  SubSeq(sorted, 1, pos - 1) \o << s >> \o SubSeq(sorted, pos, Len(sorted))

\* line 53: the stable sort by start (of a list SortRaises does not hold of)
RECURSIVE SortByStart(_)
SortByStart(segs) ==
    IF Len(segs) <= 1 THEN segs
    ELSE InsertByStart(SortByStart(SubSeq(segs, 1, Len(segs) - 1)), segs[Len(segs)])

\* faulty variant: the message of the length check used for the empty list too
MergeNoResultsSameError ==
    /\ mpc = "call"
    /\ Len(results) = Len(chunk_offsets)
    /\ results = << >>
    /\ mpc' = "raised"
    /\ merged' = Raise("ValueError", "count mismatch")
    /\ UNCHANGED << fsvars, pvars, cvars, results, chunk_offsets, has_diarization, avars, rvars, dvars, othervars, ovars >>

\* faulty variant: the map is never cleared
IsChunkBoundaryNever(last_speaker, original_speaker) == FALSE

\* faulty variant: every "A" after a labelled segment starts a chunk: last_speaker != 'A' dropped
IsChunkBoundaryAnyLast(last_speaker, original_speaker) ==
    /\ last_speaker # Absent
    /\ Get(last_speaker) # LabelEmpty
    /\ original_speaker = LabelA

\* faulty variant: any segment after a speaker other than "A" starts a chunk:
\* original_speaker == 'A' dropped
IsChunkBoundaryAnyOriginal(last_speaker, original_speaker) ==
    /\ last_speaker # Absent
    /\ Get(last_speaker) # LabelEmpty
    /\ Get(last_speaker) # LabelA

\* line 114: last_speaker and last_speaker != 'A' and original_speaker == 'A'
\* (None and the empty string are falsy)
IsChunkBoundary(last_speaker, original_speaker) ==
    /\ last_speaker # Absent
    /\ Get(last_speaker) # LabelEmpty
    /\ Get(last_speaker) # LabelA
    /\ original_speaker = LabelA

\* faulty variant: after Z the labels start again at A
NewIdWrapping(next_speaker_num) == Chr(OrdA + ((next_speaker_num - OrdA) % 26))

\* lines 122-129: the label of allocation number next_speaker_num
NewId(next_speaker_num) ==
    IF next_speaker_num <= OrdZ THEN Chr(next_speaker_num)
    ELSE LET idx == next_speaker_num - OrdA
         IN  Chr(OrdA + (idx \div 26) - 1) \o Chr(OrdA + (idx % 26))

\* lines 107-134: the loop from segment i on; speaker_map is the sequence of the
\* pairs (original label, new label) mapped so far
RECURSIVE RenumberFrom(_, _, _, _, _)
RenumberFrom(segs, i, speaker_map, next_speaker_num, last_speaker) ==
    IF i > Len(segs) THEN segs
    ELSE IF segs[i].speaker = Absent
         THEN RenumberFrom(segs, i + 1, speaker_map, next_speaker_num, last_speaker)
         ELSE LET original_speaker == Get(segs[i].speaker)
                  cleared == IF IsChunkBoundary(last_speaker, original_speaker)
                             THEN << >> ELSE speaker_map
                  fresh == original_speaker \notin { e[1] : e \in { cleared[k] : k \in 1..Len(cleared) } }
                  map1 == IF fresh THEN Append(cleared, << original_speaker, NewId(next_speaker_num) >>)
                          ELSE cleared
                  next1 == IF fresh THEN next_speaker_num + 1 ELSE next_speaker_num
                  new_id == (CHOOSE e \in { map1[k] : k \in 1..Len(map1) } : e[1] = original_speaker)[2]
              IN  RenumberFrom([segs EXCEPT ![i].speaker = Some(new_id)], i + 1,
                               map1, next1, Some(original_speaker))

\* _renumber_speakers
RenumberSpeakers(segs) == RenumberFrom(segs, 1, << >>, OrdA, Absent)

\* lines 120-130 on their own: one more original speaker is given the next label
AllocateSpeaker ==
    /\ alloc_num < OrdA + MaxAllocations
    /\ alloc_id' = NewId(alloc_num)
    /\ alloc_num' = alloc_num + 1
    /\ UNCHANGED << fsvars, pvars, cvars, mvars, rvars, dvars, othervars, ovars >>

\* faulty variant: the texts of the chunk results joined, not those of the segments
RECURSIVE JoinResultTextsFrom(_)
JoinResultTextsFrom(i) ==
    IF i > Len(results) THEN ""
    ELSE IF i = Len(results) THEN results[i].text
    ELSE results[i].text \o " " \o JoinResultTextsFrom(i + 1)
JoinTextOfResults(segs) == JoinResultTextsFrom(1)

\* " ".join(seg.text for seg in all_segments)
RECURSIVE JoinText(_)
JoinText(segs) ==
    IF Len(segs) = 0 THEN ""
    ELSE IF Len(segs) = 1 THEN segs[1].text
    ELSE segs[1].text \o " " \o JoinText(Tail(segs))

AllSegments == AllSegmentsFrom(results, chunk_offsets, 1)

\* faulty variant: renumbered whatever has_diarization says
FinalSegmentsAlwaysRenumbered == RenumberSpeakers(SortByStart(AllSegments))

\* lines 52-57: sorted, and renumbered when has_diarization
FinalSegments ==
    IF has_diarization THEN RenumberSpeakers(SortByStart(AllSegments))
    ELSE SortByStart(AllSegments)

\* lines 63-64
TotalDuration ==
    LET last == results[Len(results)].duration
    IN  chunk_offsets[Len(chunk_offsets)] + (IF last # Absent THEN Get(last) ELSE 0)

\* lines 29-32
MergeCountMismatch ==
    /\ mpc = "call"
    /\ Len(results) # Len(chunk_offsets)
    /\ mpc' = "raised"
    /\ merged' = Raise("ValueError", "count mismatch")
    /\ UNCHANGED << fsvars, pvars, cvars, results, chunk_offsets, has_diarization, avars, rvars, dvars, othervars, ovars >>

\* lines 34-35
MergeNoResults ==
    /\ mpc = "call"
    /\ Len(results) = Len(chunk_offsets)
    /\ results = << >>
    /\ mpc' = "raised"
    /\ merged' = Raise("ValueError", "no results")
    /\ UNCHANGED << fsvars, pvars, cvars, results, chunk_offsets, has_diarization, avars, rvars, dvars, othervars, ovars >>

\* line 53 raises TypeError
MergeSortRaises ==
    /\ mpc = "call"
    /\ Len(results) = Len(chunk_offsets)
    /\ results # << >>
    /\ SortRaises(AllSegments)
    /\ mpc' = "raised"
    /\ merged' = Raise("TypeError", "sort")
    /\ UNCHANGED << fsvars, pvars, cvars, results, chunk_offsets, has_diarization, avars, rvars, dvars, othervars, ovars >>

\* lines 37-76
MergeReturns ==
    /\ mpc = "call"
    /\ Len(results) = Len(chunk_offsets)
    /\ results # << >>
    /\ ~SortRaises(AllSegments)
    /\ mpc' = "done"
    /\ merged' = Return(TranscriptionResult(JoinText(FinalSegments), Some(TotalDuration),
                            FinalSegments, results[1].model_used, results[1].response_format))
    /\ UNCHANGED << fsvars, pvars, cvars, results, chunk_offsets, has_diarization, avars, rvars, dvars, othervars, ovars >>


(***************************************************************************)
(* The specification of merge_results: one call on every input of three    *)
(* bounded families.  Chunk i (from 1) has the offset (i - 1) * d, as the  *)
(* chunks of one split do; a small d makes the chunks overlap, so that     *)
(* their segments interleave and tie in the sort (d = 0: the chunks lie on *)
(* each other, d = 1: they overlap, d = MaxSegs: they are disjoint).       *)
(*   labelled: any speakers of None, "A", "B", or of "", "A", "B";         *)
(*             segment k of a chunk is at [k - 1, k], chunk-local and      *)
(*             chronological;                                              *)
(*   timed:    one speaker; any starts in 0..MaxStart, in any order;       *)
(*   untimed:  segments that lack start, end or both, among timed ones;    *)
(* and the cases of the tests: two chunks shifted by 10, and up to         *)
(* MaxABChunks chunks labelled [A, B]; and the calls with no result or     *)
(* with the wrong number of offsets.                                       *)
(***************************************************************************)
MaxSegs == 4
MaxUntimedSegs == 2
MaxChunks == 2
MaxStart == 1
MaxABChunks == 14

SpeakerValues == { Absent, Some(LabelA), Some(LabelB) }
EmptyLabelValues == { Some(LabelEmpty), Some(LabelA), Some(LabelB) }

UntimedChoices ==
    { [speaker |-> sp, start |-> te[1], end |-> te[2]] :
        sp \in { Absent, Some(LabelA) },
        te \in { << Absent, Absent >>, << Absent, Some(1) >>, << Some(0), Absent >>, << Some(0), Some(1) >> } }

Words == << "one", "two", "three", "four", "five", "six", "seven", "eight" >>
WordAt(j) == Words[((j - 1) % Len(Words)) + 1]

RECURSIVE SumTo(_, _)
SumTo(sizes, n) == IF n = 0 THEN 0 ELSE sizes[n] + SumTo(sizes, n - 1)

\* the ways to cut n segments into nc chunk results (a chunk may have no segment)
ChunkSizes(n, nc) == { sizes \in [1..nc -> 0..n] : SumTo(sizes, nc) = n }

\* the chunk results cut as sizes says; seg_at[<< j, k >>] is segment j of all,
\* which is segment k of its chunk
ResultsOf(sizes, seg_at) ==
    [i \in 1..Len(sizes) |->
        TranscriptionResult("chunk text", Some(MaxSegs),
            [k \in 1..sizes[i] |->
                LET j == SumTo(sizes, i - 1) + k
                    seg == seg_at[<< j, k >>]
                IN  TranscriptionSegment(seg.speaker, seg.start, seg.end, WordAt(j), << i, k >>)],
            "gpt-4o-transcribe", "verbose_json")]

Places(n) == (1..n) \X (1..n)

LabelledResults(speakers, sizes) ==
    ResultsOf(sizes, [p \in Places(Len(speakers)) |->
        [speaker |-> speakers[p[1]], start |-> Some(p[2] - 1), end |-> Some(p[2])]])

TimedResults(starts, sizes) ==
    ResultsOf(sizes, [p \in Places(Len(starts)) |->
        [speaker |-> Some(LabelA), start |-> Some(starts[p[1]]), end |-> Some(starts[p[1]] + 1)]])

UntimedResults(choices, sizes) ==
    ResultsOf(sizes, [p \in Places(Len(choices)) |-> choices[p[1]]])

Offsets(nc, d) == [i \in 1..nc |-> (i - 1) * d]

\* test_merger.py, the renumbering tests: k chunks, 10 apart, each labelled [A, B]
RepeatedABCase(k) ==
    [results |-> LabelledResults([j \in 1..(2 * k) |-> IF j % 2 = 1 THEN Some(LabelA) ELSE Some(LabelB)],
                                 [i \in 1..k |-> 2]),
     chunk_offsets |-> Offsets(k, 10)]

\* test_merger.py, test_timestamp_adjustment_with_offset: offsets [0, 10], one
\* segment (0, 5) in each of two chunks
TimestampShiftCase ==
    [results |->
        [i \in 1..2 |->
            TranscriptionResult("chunk text", Some(10),
                << TranscriptionSegment(Some(LabelA), Some(0), Some(5), WordAt(i), << i, 1 >>) >>,
                "gpt-4o-transcribe", "json")],
     chunk_offsets |-> << 0, 10 >>]

InitMerge ==
    /\ files = {}
    /\ dirs = {}
    /\ IdlePlanner
    /\ IdleCleanup
    /\ IdleAllocation
    /\ IdleDurationPlanner
    /\ IdleChunked
    /\ IdleOtherRun
    /\ has_diarization \in BOOLEAN
    /\ \/ \E n \in 0..MaxSegs, nc \in 1..MaxChunks, d \in { 0, 1, MaxSegs } :
            \E speakers \in [1..n -> SpeakerValues], sizes \in ChunkSizes(n, nc) :
               /\ results = LabelledResults(speakers, sizes)
               /\ chunk_offsets = Offsets(nc, d)
       \/ \E n \in 1..(MaxSegs - 1), nc \in 1..MaxChunks :
            \E speakers \in [1..n -> EmptyLabelValues], sizes \in ChunkSizes(n, nc) :
               /\ results = LabelledResults(speakers, sizes)
               /\ chunk_offsets = Offsets(nc, MaxSegs)
       \/ \E n \in 0..MaxSegs, nc \in 1..MaxChunks, d \in 0..(MaxStart + 1) :
            \E starts \in [1..n -> 0..MaxStart], sizes \in ChunkSizes(n, nc) :
               /\ results = TimedResults(starts, sizes)
               /\ chunk_offsets = Offsets(nc, d)
       \/ \E n \in 1..MaxUntimedSegs, nc \in 1..MaxChunks :
            \E choices \in [1..n -> UntimedChoices], sizes \in ChunkSizes(n, nc) :
               /\ results = UntimedResults(choices, sizes)
               /\ chunk_offsets = Offsets(nc, 1)
       \/ /\ results = TimestampShiftCase.results
          /\ chunk_offsets = TimestampShiftCase.chunk_offsets
       \/ \E k \in 1..MaxABChunks :
            /\ results = RepeatedABCase(k).results
            /\ chunk_offsets = RepeatedABCase(k).chunk_offsets
       \/ /\ results = << >>
          /\ chunk_offsets \in { << >>, << 0 >> }
       \/ /\ results = LabelledResults(<< >>, << 0 >>)
          /\ chunk_offsets \in { << >>, << 0, 1 >> }
    /\ mpc = "call"
    /\ merged = NoOutcome

NextMerge ==
    \/ MergeCountMismatch
    \/ MergeNoResults
    \/ MergeSortRaises
    \/ MergeReturns

SpecMerge == InitMerge /\ [][NextMerge]_vars


(***************************************************************************)
(* Claims about merge_results.  They read its outcome, merged, against its *)
(* arguments, results and chunk_offsets, which it leaves as they were.     *)
(* Source(k) is the input segment that output segment k was made from.     *)
(***************************************************************************)
MergeReturned == mpc = "done" /\ merged.kind = "return"
Out == merged.value.segments
Source(k) == results[Out[k].origin[1]].segments[Out[k].origin[2]]
OffsetOf(k) == chunk_offsets[Out[k].origin[1]]
InputPlaces == UNION { { << i, k >> : k \in 1..Len(results[i].segments) } : i \in 1..Len(results) }

\* origin a comes before origin b in the concatenation of the inputs
Precedes(a, b) == a[1] < b[1] \/ (a[1] = b[1] /\ a[2] < b[2])

\* the original label that the renumbering saw at sorted position p, and whether
\* it took p for the start of a chunk: an "A" whose last labelled predecessor has
\* a label that is neither "A" nor empty
Local(p) == Source(p).speaker
BoundaryAt(p) ==
    /\ Local(p) = Some(LabelA)
    /\ \E q \in 1..(p - 1) :
          /\ Local(q) \notin { Absent, Some(LabelEmpty), Some(LabelA) }
          /\ \A r \in (q + 1)..(p - 1) : Local(r) = Absent

\* C2 (as claimed): with diarization on, two segments of different chunks with
\* the same chunk-local label never have the same global label.
C2_NoCrossChunkCollision ==
    (MergeReturned /\ has_diarization) =>
        \A k, l \in 1..Len(Out) :
            (/\ Out[k].origin[1] # Out[l].origin[1]
             /\ Local(k) # Absent
             /\ Local(k) = Local(l)) => Out[k].speaker # Out[l].speaker

\* C2 (amended): with diarization on, two segments of different chunks with the
\* same chunk-local label have different global labels exactly when a chunk
\* boundary is detected between them in the sorted order (an "A" whose last
\* labelled predecessor has a non-empty label other than "A"); with no such
\* boundary between them they share one global label.
C2_CollisionUnlessBoundary ==
    (MergeReturned /\ has_diarization) =>
        \A k, l \in 1..Len(Out) :
            (/\ k < l
             /\ Out[k].origin[1] # Out[l].origin[1]
             /\ Local(k) # Absent
             /\ Local(k) = Local(l))
            => ((Out[k].speaker # Out[l].speaker) <=> (\E p \in (k + 1)..l : BoundaryAt(p)))

\* C2's case: chunks labelled [A, B] and [A]: the second chunk's A gets a
\* label other than the first chunk's
C2_Witness ==
    /\ MergeReturned /\ has_diarization
    /\ Len(Out) = 3
    /\ << Local(1), Local(2), Local(3) >> = << Some(LabelA), Some(LabelB), Some(LabelA) >>
    /\ << Out[1].origin[1], Out[2].origin[1], Out[3].origin[1] >> = << 1, 1, 2 >>
    /\ Out[1].speaker # Out[3].speaker

\* C4: the merged list is the stable sort by adjusted start of the concatenated
\* inputs: as many elements as the inputs together, each input segment once,
\* starts non-decreasing, equal starts in input order.
C4_StableSortOfAll ==
    MergeReturned =>
        /\ Len(Out) = SumTo([i \in 1..Len(results) |-> Len(results[i].segments)], Len(results))
        /\ { Out[k].origin : k \in 1..Len(Out) } = InputPlaces
        /\ \A k, l \in 1..Len(Out) :
              k < l =>
                  /\ Get(Out[k].start) <= Get(Out[l].start)
                  /\ Out[k].start = Out[l].start => Precedes(Out[k].origin, Out[l].origin)

\* C4's case: chunks that overlap: a segment of the second chunk is sorted before
\* one of the first, and two segments with equal start stay in input order
C4_Witness ==
    /\ MergeReturned
    /\ Len(Out) = 3
    /\ \E k \in 1..2 : Out[k].origin[1] = 2 /\ Out[k + 1].origin[1] = 1
    /\ \E k \in 1..2 : Out[k].start = Out[k + 1].start /\ Out[k].origin[1] # Out[k + 1].origin[1]

IsTimestampShiftCase ==
    results = TimestampShiftCase.results /\ chunk_offsets = TimestampShiftCase.chunk_offsets

\* C5: an input segment with start and end comes out with start + offset and
\* end + offset of its own chunk; offsets [0, 10] and a segment (0, 5) per chunk
\* give (0, 5) then (10, 15).
C5_ShiftedByOwnOffset ==
    MergeReturned =>
        /\ \A k \in 1..Len(Out) :
              (Source(k).start # Absent /\ Source(k).end # Absent) =>
                  /\ Out[k].start = Some(Get(Source(k).start) + OffsetOf(k))
                  /\ Out[k].end = Some(Get(Source(k).end) + OffsetOf(k))
                  /\ Out[k].text = Source(k).text
        /\ IsTimestampShiftCase =>
              /\ Len(Out) = 2
              /\ << Out[1].start, Out[1].end >> = << Some(0), Some(5) >>
              /\ << Out[2].start, Out[2].end >> = << Some(10), Some(15) >>

\* C5's case: the two chunks of the test, the second shifted by 10
C5_Witness == MergeReturned /\ IsTimestampShiftCase /\ Out[2].end = Some(15)

\* C6 (as claimed): a valid call (as many offsets as results, at least one
\* result) returns, also when several segments have no start, and an absent start
\* or end is absent in the result.
C6_AbsentTimesAccepted ==
    (mpc # "call" /\ Len(results) = Len(chunk_offsets) /\ results # << >>) =>
        /\ MergeReturned
        /\ \A k \in 1..Len(Out) :
              /\ Source(k).start = Absent => Out[k].start = Absent
              /\ Source(k).end = Absent => Out[k].end = Absent

\* every chunk result has two segments, labelled A and B
IsRepeatedAB ==
    \A i \in 1..Len(results) :
        /\ Len(results[i].segments) = 2
        /\ results[i].segments[1].speaker = Some(LabelA)
        /\ results[i].segments[2].speaker = Some(LabelB)
        /\ \A k \in 1..2 : results[i].segments[k].start # Absent /\ results[i].segments[k].end # Absent
        /\ Get(results[i].segments[1].start) <= Get(results[i].segments[2].start)

\* increasing offsets, no chunk reaching into the next one
NonOverlappingChunks ==
    \A i \in 1..(Len(results) - 1) :
        \A k \in 1..Len(results[i].segments) :
            Get(results[i].segments[k].end) + chunk_offsets[i] <= chunk_offsets[i + 1]

\* C12: with diarization on, k non-overlapping chunks labelled [A, B] come out
\* with 2k pairwise different labels in order of appearance: A, B, then C, D,
\* then E, F, and so on (single letters for the first 26).
C12_RepeatedABRenumbered ==
    (MergeReturned /\ has_diarization /\ IsRepeatedAB /\ NonOverlappingChunks) =>
        /\ Len(Out) = 2 * Len(results)
        /\ \A p, q \in 1..Len(Out) : p # q => Out[p].speaker # Out[q].speaker
        /\ \A p \in 1..Len(Out) :
              /\ Out[p].origin = << (p + 1) \div 2, 2 - (p % 2) >>
              /\ p <= 26 => Out[p].speaker = Some(Chr(OrdA + p - 1))

\* C12's case: three chunks, the third renumbered to E, F
C12_Witness ==
    /\ MergeReturned /\ has_diarization /\ IsRepeatedAB /\ NonOverlappingChunks
    /\ Len(results) = 3
    /\ << Out[5].speaker, Out[6].speaker >> = << Some(Chr(OrdA + 4)), Some(Chr(OrdA + 5)) >>


\* the texts of the first n merged segments with one space between neighbours
RECURSIVE SegmentTextsUpTo(_)
SegmentTextsUpTo(n) ==
    IF n = 0 THEN ""
    ELSE IF n = 1 THEN Out[1].text
    ELSE SegmentTextsUpTo(n - 1) \o " " \o Out[n].text

\* C21: the text of the merged result is the texts of the merged segments in
\* their final order joined by single spaces (the empty text when there is no
\* segment), each the text of the input segment it was made from; the text
\* fields of the chunk results play no part.
C21_TextIsJoinedSegmentTexts ==
    MergeReturned =>
        /\ merged.value.text = SegmentTextsUpTo(Len(Out))
        /\ \A k \in 1..Len(Out) : Out[k].text = Source(k).text

\* C21's case: two chunk results, whose own text is not that of their
\* segments, with three segments between them
C21_Witness ==
    /\ MergeReturned
    /\ Len(results) = 2
    /\ Len(Out) = 3
    /\ \A i \in 1..2 : results[i].segments # << >> /\ results[i].text # results[i].segments[1].text

\* C22: with has_diarization false the speaker of every output segment is the
\* speaker of the input segment it was made from, absent or not.
C22_NoRenumberingWithoutDiarization ==
    (MergeReturned /\ ~has_diarization) =>
        \A k \in 1..Len(Out) : Out[k].speaker = Source(k).speaker

\* C22's case: two chunks that both use the label A, and a segment without speaker
C22_Witness ==
    /\ MergeReturned /\ ~has_diarization
    /\ \E k, l \in 1..Len(Out) :
          /\ Out[k].origin[1] # Out[l].origin[1]
          /\ Out[k].speaker = Some(LabelA) /\ Out[l].speaker = Some(LabelA)
    /\ \E k \in 1..Len(Out) : Out[k].speaker = Absent
    /\ \E k \in 1..Len(Out) : Out[k].speaker = Some(LabelB)

\* C23 (as claimed): with diarization on, two segments of the same chunk
\* result with the same chunk-local label get the same global label, however
\* the speakers alternate inside the chunk.
C23_SameChunkSameLabel ==
    (MergeReturned /\ has_diarization) =>
        \A k, l \in 1..Len(Out) :
            (/\ Out[k].origin[1] = Out[l].origin[1]
             /\ Local(k) # Absent
             /\ Local(k) = Local(l)) => Out[k].speaker = Out[l].speaker

\* C26: with diarization on, a segment labelled B that follows another
\* segment labelled B with no segment labelled A between them gets the same
\* global label, whatever chunks they come from; two non-overlapping chunks
\* labelled [A, B] and [B] come out as A, B, B.
C26_OnlyBChunkJoinsActiveMapping ==
    (MergeReturned /\ has_diarization) =>
        /\ \A j, k \in 1..Len(Out) :
              (/\ j < k
               /\ Local(j) = Some(LabelB) /\ Local(k) = Some(LabelB)
               /\ \A p \in (j + 1)..(k - 1) : Local(p) # Some(LabelA))
              => Out[k].speaker = Out[j].speaker
        /\ (/\ Len(results) = 2
            /\ [k \in 1..Len(results[1].segments) |-> results[1].segments[k].speaker]
                   = << Some(LabelA), Some(LabelB) >>
            /\ [k \in 1..Len(results[2].segments) |-> results[2].segments[k].speaker]
                   = << Some(LabelB) >>
            /\ NonOverlappingChunks)
           => [k \in 1..Len(Out) |-> Out[k].speaker] = << Some(LabelA), Some(LabelB), Some(LabelB) >>

\* C26's case: the chunks labelled [A, B] and [B], one after the other
C26_Witness ==
    /\ MergeReturned /\ has_diarization
    /\ Len(results) = 2
    /\ NonOverlappingChunks
    /\ Len(Out) = 3
    /\ << Local(1), Local(2), Local(3) >> = << Some(LabelA), Some(LabelB), Some(LabelB) >>
    /\ << Out[1].origin[1], Out[2].origin[1], Out[3].origin[1] >> = << 1, 1, 2 >>

\* C27: with diarization on, the global labels in use are the first ones of
\* the allocation sequence, one per allocation, and two segments share a global
\* label only if they have the same original label and no chunk boundary was
\* detected from the first to the second: a label allocated before the map was
\* cleared is never written onto a segment after the clear.
C27_AllocatedLabelsNeverReused ==
    (MergeReturned /\ has_diarization) =>
        LET used == { Out[k].speaker : k \in { l \in 1..Len(Out) : Local(l) # Absent } }
        IN  /\ used = { Some(NewId(OrdA + m)) : m \in 0..(Cardinality(used) - 1) }
            /\ \A j, k \in 1..Len(Out) :
                  (j < k /\ Local(j) # Absent /\ Out[j].speaker = Out[k].speaker) =>
                      /\ Local(j) = Local(k)
                      /\ \A p \in (j + 1)..k : ~BoundaryAt(p)

\* C27's case: more allocations than letters, with a clear of the map between them
C27_Witness ==
    /\ MergeReturned /\ has_diarization
    /\ \E p \in 1..Len(Out) : BoundaryAt(p)
    /\ Cardinality({ Out[k].speaker : k \in 1..Len(Out) }) > 26


\* C19: merge_results raises an input error when results and chunk_offsets
\* differ in length and a different one when results is empty (lengths equal);
\* either way it produces no merged result and leaves its arguments as they were.
C19_MergeValidation ==
    [][(mpc = "call" /\ (Len(results) # Len(chunk_offsets) \/ results = << >>)) =>
          /\ mpc' = "raised"
          /\ merged'.kind = "raise" /\ merged'.exc = "ValueError" /\ merged'.value = << >>
          /\ merged'.what = (IF Len(results) # Len(chunk_offsets) THEN "count mismatch" ELSE "no results")
          /\ results' = results /\ chunk_offsets' = chunk_offsets /\ has_diarization' = has_diarization]_vars

\* C19's case: the empty call has raised its own error
C19_Witness ==
    /\ mpc = "raised"
    /\ results = << >> /\ chunk_offsets = << >>
    /\ merged.what = "no results"


(***************************************************************************)
(* split_audio_by_duration, the planner that takes the maximum chunk       *)
(* duration directly.  audio/__init__.py exports it and test_chunker.py    *)
(* calls it, but chunker.py does not hold it: what follows is its          *)
(* validation as section 4.1 of the specification and the tests'           *)
(* expected messages state it.  max_duration_sec and overlap_sec are in    *)
(* ticks.  After the validation the planner plans and exports; of that     *)
(* only the writing of the first chunk file is modelled.                   *)
(***************************************************************************)
MaxValidationTicks == 8

\* reject max_duration_sec <= 0: "must be positive"
DurationNotPositive ==
    /\ dpc = "call"
    /\ max_duration_ticks <= 0
    /\ dpc' = "raised"
    /\ dret' = Raise("RuntimeError", "must be positive")
    /\ UNCHANGED << fsvars, pvars, cvars, mvars, avars, rvars, max_duration_ticks, d_overlap_ticks, ovars, othervars >>

\* faulty variant: the overlap is checked without max_duration_sec > 0 being known
DurationOverlapTooLargeUnordered ==
    /\ dpc = "call"
    /\ d_overlap_ticks >= max_duration_ticks
    /\ dpc' = "raised"
    /\ dret' = Raise("RuntimeError", "overlap must be less than max duration")
    /\ UNCHANGED << fsvars, pvars, cvars, mvars, avars, rvars, max_duration_ticks, d_overlap_ticks, ovars, othervars >>

\* reject overlap_sec >= max_duration_sec: "Overlap ... must be less than max duration"
DurationOverlapTooLarge ==
    /\ dpc = "call"
    /\ max_duration_ticks > 0
    /\ d_overlap_ticks >= max_duration_ticks
    /\ dpc' = "raised"
    /\ dret' = Raise("RuntimeError", "overlap must be less than max duration")
    /\ UNCHANGED << fsvars, pvars, cvars, mvars, avars, rvars, max_duration_ticks, d_overlap_ticks, ovars, othervars >>

\* the arguments are valid: the planning starts
DurationValidated ==
    /\ dpc = "call"
    /\ max_duration_ticks > 0
    /\ d_overlap_ticks < max_duration_ticks
    /\ dpc' = "export"
    /\ UNCHANGED << fsvars, pvars, cvars, mvars, avars, rvars, max_duration_ticks, d_overlap_ticks, dret, ovars, othervars >>

\* the first chunk file is written
DurationExport ==
    /\ dpc = "export"
    /\ files' = files \cup { ChunkPath(DefaultScratchpad, InputFile, 0) }
    /\ dirs' = dirs \cup { SubSeq(DefaultScratchpad, 1, n) : n \in 1..Len(DefaultScratchpad) }
    /\ dpc' = "exported"
    /\ UNCHANGED << pvars, cvars, mvars, avars, rvars, max_duration_ticks, d_overlap_ticks, dret, ovars, othervars >>

InitDuration ==
    /\ files = { InputFile }
    /\ dirs = { << InputDir >> }
    /\ dpc = "call"
    /\ max_duration_ticks \in (-MaxValidationTicks)..MaxValidationTicks
    /\ d_overlap_ticks \in 0..MaxValidationTicks
    /\ dret = NoOutcome
    /\ IdlePlanner
    /\ IdleCleanup
    /\ IdleMerge
    /\ IdleAllocation
    /\ IdleChunked
    /\ IdleOtherRun

NextDuration ==
    \/ DurationNotPositive
    \/ DurationOverlapTooLarge
    \/ DurationValidated
    \/ DurationExport

SpecDuration == InitDuration /\ [][NextDuration]_vars

InitAllocation ==
    /\ alloc_num = OrdA
    /\ alloc_id = << >>
    /\ files = {}
    /\ dirs = {}
    /\ IdlePlanner
    /\ IdleCleanup
    /\ IdleMerge
    /\ IdleDurationPlanner
    /\ IdleChunked
    /\ IdleOtherRun

NextAllocation == AllocateSpeaker

SpecAllocation == InitAllocation /\ [][NextAllocation]_vars

\* the number of labels allocated so far; alloc_id is the last of them
Allocated == alloc_num - OrdA

\* C13 (as claimed): the first 26 labels allocated are single letters, every
\* later one is a two-letter code, every label has only the letters A-Z, and
\* the 27th and 28th are AA and AB.
C13_AlphabeticLabels ==
    Allocated >= 1 =>
        /\ Allocated <= 26 => alloc_id = Chr(OrdA + Allocated - 1)
        /\ Allocated > 26 => Len(alloc_id) = 2
        /\ \A k \in 1..Len(alloc_id) : alloc_id[k] \in OrdA..OrdZ
        /\ Allocated = 27 => alloc_id = << OrdA, OrdA >>
        /\ Allocated = 28 => alloc_id = << OrdA, OrdA + 1 >>


(***************************************************************************)
(* transcribe_chunked (adapter.py), one step of the code per action.  It   *)
(* calls split_audio(audio_path=audio_path), so split_audio runs with its  *)
(* defaults: max_size_mb is CHUNK_MAX_SIZE_MB, overlap_sec is              *)
(* CHUNK_OVERLAP_SEC and scratchpad_dir is None.  While split_audio,       *)
(* merge_results and cleanup_chunks run, transcribe_chunked waits at       *)
(* opc = "split", "merge" and "cleanup".  What self.transcribe gets from   *)
(* the API, and whether the API fails, is not decided by this code: any    *)
(* outcome of ChunkResultChoices or a failure.  A progress callback        *)
(* returns or raises.                                                      *)
(***************************************************************************)
SUPPORTED_FORMATS == { ".mp3", ".mp4", ".mpeg", ".mpga", ".m4a", ".wav", ".webm" }
DIARIZE_MODEL == "gpt-4o-transcribe-diarize"

\* str.lower() on the suffixes of the model
Lower(s) == IF s = ".MP3" THEN ".mp3" ELSE IF s = ".TXT" THEN ".txt" ELSE s

Event(op, i, value) == [op |-> op, i |-> i, value |-> value]

\* transcribe, lines 120-123: diarized_json asked of another model
TranscribeRejects(model, response_format) ==
    response_format = "diarized_json" /\ model # DIARIZE_MODEL

\* line 295
ChunkResponseFormat == IF has_diarization THEN "diarized_json" ELSE "verbose_json"

\* faulty variant: the offset of a chunk is where it ends
ChunkOffsetEnd(chunk) == chunk.end_sec

\* line 306: chunk.start_sec
ChunkOffset(chunk) == chunk.start_sec

\* _parse_response, lines 183-210, on what the API answers for chunk i (from 0):
\* no segment, one segment over the chunk, or one segment without times; the
\* speaker is read only from a diarized_json answer
ChunkResultChoices(chunk, i) ==
    LET speaker == IF ChunkResponseFormat = "diarized_json" THEN Some(LabelA) ELSE Absent
        span == chunk.end_sec - chunk.start_sec
        segs == { << >>,
                  << TranscriptionSegment(speaker, Some(0), Some(span), WordAt(i + 1), << i + 1, 1 >>) >>,
                  << TranscriptionSegment(speaker, Absent, Absent, WordAt(i + 1), << i + 1, 1 >>) >> }
    IN  { TranscriptionResult(WordAt(i + 1), Some(span), s, o_model, ChunkResponseFormat) : s \in segs }

\* lines 246-247
ChunkedInputMissing ==
    /\ opc = "call"
    /\ audio_file \notin files
    /\ opc' = "raised"
    /\ o_ret' = Raise("AudioFileNotFoundError", "not found")
    /\ UNCHANGED << fsvars, pvars, cvars, mvars, avars, rvars, dvars, othervars,
                    has_callback, o_model, o_format, prompt, o_chunks, o_i, o_pending, events >>

\* lines 249-253
ChunkedInvalidFormat ==
    /\ opc = "call"
    /\ audio_file \in files
    /\ Lower(Suffix(audio_file)) \notin SUPPORTED_FORMATS
    /\ opc' = "raised"
    /\ o_ret' = Raise("InvalidAudioFormatError", "unsupported format")
    /\ UNCHANGED << fsvars, pvars, cvars, mvars, avars, rvars, dvars, othervars,
                    has_callback, o_model, o_format, prompt, o_chunks, o_i, o_pending, events >>

\* lines 256-260
ChunkedPromptNotSupported ==
    /\ opc = "call"
    /\ audio_file \in files
    /\ Lower(Suffix(audio_file)) \in SUPPORTED_FORMATS
    /\ o_model = DIARIZE_MODEL /\ prompt
    /\ opc' = "raised"
    /\ o_ret' = Raise("PromptNotSupportedError", "prompt")
    /\ UNCHANGED << fsvars, pvars, cvars, mvars, avars, rvars, dvars, othervars,
                    has_callback, o_model, o_format, prompt, o_chunks, o_i, o_pending, events >>

\* lines 245-260 raise nothing
ChunkedAccepted ==
    /\ opc = "call"
    /\ audio_file \in files
    /\ Lower(Suffix(audio_file)) \in SUPPORTED_FORMATS
    /\ ~(o_model = DIARIZE_MODEL /\ prompt)

\* lines 265-274: no chunking needed, return self.transcribe(...), which rejects
\* the request (lines 120-123), fails at the API (lines 149-152) or returns
ChunkedDirect ==
    /\ ChunkedAccepted
    /\ NoChunkingNeeded
    /\ \/ /\ TranscribeRejects(o_model, o_format)
          /\ o_ret' = Raise("InvalidAudioFormatError", "diarized_json")
          /\ opc' = "raised"
       \/ /\ ~TranscribeRejects(o_model, o_format)
          /\ o_ret' = Raise("TranscriptionError", "api")
          /\ opc' = "raised"
       \/ /\ ~TranscribeRejects(o_model, o_format)
          /\ o_ret' = Return(TranscriptionResult("direct", Some(duration_ms), << >>, o_model, o_format))
          /\ opc' = "done"
    /\ UNCHANGED << fsvars, pvars, cvars, mvars, avars, rvars, dvars, othervars,
                    has_callback, o_model, o_format, prompt, o_chunks, o_i, o_pending, events >>

\* line 278: split_audio(audio_path=audio_path) is called
ChunkedCallSplit ==
    /\ ChunkedAccepted
    /\ ~NoChunkingNeeded
    /\ pc' = "call"
    /\ opc' = "split"
    /\ UNCHANGED << fsvars, argvars, locvars, ret, cvars, mvars, avars, rvars, dvars, othervars,
                    has_callback, o_model, o_format, prompt, o_chunks, o_i, o_pending, o_ret, events >>

\* lines 279-280: split_audio raised; nothing to clean up here
ChunkedSplitRaised ==
    /\ opc = "split"
    /\ pc = "raised"
    /\ opc' = "raised"
    /\ o_ret' = Raise("TranscriptionError", "split")
    /\ UNCHANGED << fsvars, pvars, cvars, mvars, avars, rvars, dvars, othervars,
                    has_callback, o_model, o_format, prompt, o_chunks, o_i, o_pending, events >>

\* lines 278-288: split_audio returned; the try block is entered
ChunkedSplitReturned ==
    /\ opc = "split"
    /\ pc = "done"
    /\ o_chunks' = ret.value
    /\ has_diarization' = (o_model = DIARIZE_MODEL \/ o_format = "diarized_json")
    /\ results' = << >>
    /\ chunk_offsets' = << >>
    /\ o_i' = 0
    /\ opc' = "loop"
    /\ UNCHANGED << fsvars, pvars, cvars, mpc, merged, avars, rvars, dvars, othervars,
                    has_callback, o_model, o_format, prompt, o_pending, o_ret, events >>

\* lines 290-292 with a callback: progress_callback(i + 1, len(chunks)) returns
ProgressCallbackReturns ==
    /\ opc = "loop"
    /\ o_i < Len(o_chunks)
    /\ has_callback
    /\ events' = Append(events, Event("callback", o_i, None))
    /\ opc' = "transcribe"
    /\ UNCHANGED << fsvars, pvars, cvars, mvars, avars, rvars, dvars, othervars,
                    has_callback, o_model, o_format, prompt, o_chunks, o_i, o_pending, o_ret >>

\* lines 290-292 with a callback that raises: nothing in the loop catches it, the
\* exception leaves the try block for the finally clause
ProgressCallbackRaises ==
    /\ opc = "loop"
    /\ o_i < Len(o_chunks)
    /\ has_callback
    /\ events' = Append(events, Event("callback raised", o_i, None))
    /\ o_pending' = Raise("CallbackError", "callback")
    /\ opc' = "finally"
    /\ UNCHANGED << fsvars, pvars, cvars, mvars, avars, rvars, dvars, othervars,
                    has_callback, o_model, o_format, prompt, o_chunks, o_i, o_ret >>

\* lines 290-291 without a callback
NoProgressCallback ==
    /\ opc = "loop"
    /\ o_i < Len(o_chunks)
    /\ ~has_callback
    /\ opc' = "transcribe"
    /\ UNCHANGED << fsvars, pvars, cvars, mvars, avars, rvars, dvars, othervars,
                    has_callback, o_model, o_format, prompt, o_chunks, o_i, o_pending, o_ret, events >>

\* lines 295-304: self.transcribe is called on chunk i
TranscribeChunkCall ==
    /\ opc = "transcribe"
    /\ events' = Append(events, Event("start", o_i, None))
    /\ opc' = "transcribing"
    /\ UNCHANGED << fsvars, pvars, cvars, mvars, avars, rvars, dvars, othervars,
                    has_callback, o_model, o_format, prompt, o_chunks, o_i, o_pending, o_ret >>

\* faulty variant: no finally clause, the error of a chunk's transcription leaves
\* transcribe_chunked at once
TranscribeChunkRaisesNoFinally ==
    /\ opc = "transcribing"
    /\ \E exc \in { "AudioFileNotFoundError", "InvalidAudioFormatError", "TranscriptionError", "FileSizeLimitError" } :
         /\ exc = "AudioFileNotFoundError" <=> o_chunks[o_i + 1].path \notin files
         /\ o_chunks[o_i + 1].path \in files =>
               (exc = "InvalidAudioFormatError" <=> TranscribeRejects(o_model, ChunkResponseFormat))
         /\ o_ret' = Raise(exc, "transcribe")
    /\ events' = Append(events, Event("raised", o_i, None))
    /\ opc' = "raised"
    /\ UNCHANGED << fsvars, pvars, cvars, mvars, avars, rvars, dvars, othervars,
                    has_callback, o_model, o_format, prompt, o_chunks, o_i, o_pending >>

\* transcribe raises on chunk i: the chunk file does not exist (lines 94-95), or
\* the request is rejected (lines 120-123), or the chunk file is over the API's
\* limit (lines 105-110) or the API fails (lines 149-152); the exception leaves
\* the try block for the finally clause
TranscribeChunkRaises ==
    /\ opc = "transcribing"
    /\ \E exc \in { "AudioFileNotFoundError", "InvalidAudioFormatError", "TranscriptionError", "FileSizeLimitError" } :
         /\ exc = "AudioFileNotFoundError" <=> o_chunks[o_i + 1].path \notin files
         /\ o_chunks[o_i + 1].path \in files =>
               (exc = "InvalidAudioFormatError" <=> TranscribeRejects(o_model, ChunkResponseFormat))
         /\ o_pending' = Raise(exc, "transcribe")
    /\ events' = Append(events, Event("raised", o_i, None))
    /\ opc' = "finally"
    /\ UNCHANGED << fsvars, pvars, cvars, mvars, avars, rvars, dvars, othervars,
                    has_callback, o_model, o_format, prompt, o_chunks, o_i, o_ret >>

\* lines 297-306: transcribe finds the chunk file and returns the result of chunk
\* i; both lists grow
TranscribeChunkReturns ==
    /\ opc = "transcribing"
    /\ o_chunks[o_i + 1].path \in files
    /\ ~TranscribeRejects(o_model, ChunkResponseFormat)
    /\ \E result \in ChunkResultChoices(o_chunks[o_i + 1], o_i) :
         /\ results' = Append(results, result)
         /\ events' = Append(events, Event("result", o_i, result))
    /\ chunk_offsets' = Append(chunk_offsets, ChunkOffset(o_chunks[o_i + 1]))
    /\ o_i' = o_i + 1
    /\ opc' = "loop"
    /\ UNCHANGED << fsvars, pvars, cvars, has_diarization, mpc, merged, avars, rvars, dvars, othervars,
                    has_callback, o_model, o_format, prompt, o_chunks, o_pending, o_ret >>

\* lines 309-313: the loop is over, merge_results is called
ChunkedCallMerge ==
    /\ opc = "loop"
    /\ o_i = Len(o_chunks)
    /\ mpc' = "call"
    /\ events' = Append(events, Event("merge", o_i, None))
    /\ opc' = "merge"
    /\ UNCHANGED << fsvars, pvars, cvars, results, chunk_offsets, has_diarization, merged,
                    avars, rvars, dvars, othervars,
                    has_callback, o_model, o_format, prompt, o_chunks, o_i, o_pending, o_ret >>

\* lines 309-315: merge_results returned (return merged) or raised
ChunkedMergeEnded ==
    /\ opc = "merge"
    /\ mpc \in { "done", "raised" }
    /\ o_pending' = merged
    /\ opc' = "finally"
    /\ UNCHANGED << fsvars, pvars, cvars, mvars, avars, rvars, dvars, othervars,
                    has_callback, o_model, o_format, prompt, o_chunks, o_i, o_ret, events >>

\* lines 317-319: finally: cleanup_chunks(chunks) is called
ChunkedCallCleanup ==
    /\ opc = "finally"
    /\ cl_chunks' = o_chunks
    /\ cl_i' = 0
    /\ cl_pc' = "loop"
    /\ cl_files0' = files
    /\ cl_raised' = {}
    /\ events' = Append(events, Event("cleanup", o_i, None))
    /\ opc' = "cleanup"
    /\ UNCHANGED << fsvars, pvars, mvars, avars, rvars, dvars, othervars,
                    has_callback, o_model, o_format, prompt, o_chunks, o_i, o_pending, o_ret >>

\* cleanup_chunks returned: the pending return or exception takes effect
ChunkedFinish ==
    /\ opc = "cleanup"
    /\ cl_pc = "done"
    /\ o_ret' = o_pending
    /\ opc' = IF o_pending.kind = "return" THEN "done" ELSE "raised"
    /\ UNCHANGED << fsvars, pvars, cvars, mvars, avars, rvars, dvars, othervars,
                    has_callback, o_model, o_format, prompt, o_chunks, o_i, o_pending, events >>

(***************************************************************************)
(* The specification of transcribe_chunked: one call on every request of   *)
(* Requests, with or without a progress callback, on an input file that    *)
(* exists, is missing or has a suffix the API does not take.  The          *)
(* configuration is valid (config.validate_config): the overlap is not     *)
(* negative and CHUNK_MAX_SIZE_MB is under the API's limit, so that a file *)
(* that needs no chunking is never over that limit.                        *)
(***************************************************************************)
MaxRunDurationMs == 3
MaxRunOverlapTicks == 1

Requests ==
    { [model |-> "gpt-4o-transcribe", response_format |-> "json", prompt |-> FALSE],
      [model |-> "gpt-4o-transcribe", response_format |-> "verbose_json", prompt |-> TRUE],
      [model |-> DIARIZE_MODEL, response_format |-> "diarized_json", prompt |-> FALSE],
      [model |-> DIARIZE_MODEL, response_format |-> "json", prompt |-> TRUE],
      [model |-> "gpt-4o-transcribe", response_format |-> "diarized_json", prompt |-> FALSE] }

\* the files there are: a.mp3, b.MP3 and notes.TXT
ChunkedFiles == { InputFile, << InputDir, Name("b", ".MP3") >>, << InputDir, Name("notes", ".TXT") >> }
ChunkedAudioPaths == ChunkedFiles \cup { << InputDir, Name("gone", ".mp3") >> }

InitChunked ==
    /\ files = ChunkedFiles
    /\ dirs = { << InputDir >> }
    /\ audio_path \in ChunkedAudioPaths
    /\ scratchpad_dir = NoDir
    /\ max_size_mb \in 1..MaxSizeMb
    /\ st_size \in 1..MaxStSize
    /\ duration_ms \in 1..MaxRunDurationMs
    /\ overlap_ticks \in 0..MaxRunOverlapTicks
    /\ pc = "idle"
    /\ chunk_duration_ms = 0
    /\ overlap_ms = 0
    /\ start_ms = 0
    /\ chunks = << >>
    /\ chunk_results = << >>
    /\ ret = NoOutcome
    /\ IdleCleanup
    /\ IdleMerge
    /\ IdleAllocation
    /\ IdleDurationPlanner
    /\ opc = "call"
    /\ has_callback \in BOOLEAN
    /\ \E r \in Requests :
         /\ o_model = r.model
         /\ o_format = r.response_format
         /\ prompt = r.prompt
    /\ o_chunks = << >>
    /\ o_i = 0
    /\ o_pending = NoOutcome
    /\ o_ret = NoOutcome
    /\ events = << >>
    /\ IdleOtherRun

NextChunked ==
    \/ ChunkedInputMissing
    \/ ChunkedInvalidFormat
    \/ ChunkedPromptNotSupported
    \/ ChunkedDirect
    \/ ChunkedCallSplit
    \/ LoadFails
    \/ OverlapTooLarge
    \/ EnterLoop
    \/ LoopIteration
    \/ LoopExit
    \/ MakeScratchpad
    \/ ExportChunk
    \/ ExportFails
    \/ ExportRollbackFails
    \/ ReturnChunks
    \/ ChunkedSplitRaised
    \/ ChunkedSplitReturned
    \/ ProgressCallbackReturns
    \/ ProgressCallbackRaises
    \/ NoProgressCallback
    \/ TranscribeChunkCall
    \/ TranscribeChunkRaises
    \/ TranscribeChunkReturns
    \/ ChunkedCallMerge
    \/ MergeSortRaises
    \/ MergeReturns
    \/ ChunkedMergeEnded
    \/ ChunkedCallCleanup
    \/ CleanupUnlink
    \/ CleanupUnlinkRaises
    \/ CleanupReturn
    \/ ChunkedFinish

SpecChunked == InitChunked /\ [][NextChunked]_vars


(***************************************************************************)
(* Claims about transcribe_chunked.  They read its history, events, and    *)
(* what it left behind once it has returned or raised.                     *)
(***************************************************************************)
ChunkedFinished == opc \in { "done", "raised" }
SplitReturnedChunks == opc # "split" /\ pc = "done"
EventsOf(op) == { p \in 1..Len(events) : events[p].op = op }

\* C14 (as claimed): once split_audio has returned chunks, transcribe_chunked
\* runs cleanup_chunks on the full chunk list before it returns or raises;
\* then no temporary chunk file of the run exists and the input file exists.
C14_NoTempChunkFileAfterRun ==
    (ChunkedFinished /\ SplitReturnedChunks) =>
        /\ cl_pc = "done"
        /\ cl_chunks = o_chunks
        /\ \A k \in 1..Len(o_chunks) : o_chunks[k].is_temp => o_chunks[k].path \notin files
        /\ audio_file \in files

\* C14 (amended): once split_audio has returned chunks, transcribe_chunked
\* runs cleanup_chunks on the full chunk list before it returns or raises;
\* then every temporary chunk file of the run is gone except those whose
\* unlink failed in the cleanup, and the input file exists.
C14_TempChunkFilesGoneUnlessUnlinkFailed ==
    (ChunkedFinished /\ SplitReturnedChunks) =>
        /\ cl_pc = "done"
        /\ cl_chunks = o_chunks
        /\ \A k \in 1..Len(o_chunks) :
              o_chunks[k].is_temp => (o_chunks[k].path \notin files \/ k \in cl_raised)
        /\ audio_file \in files

\* a run of two or more chunks that ended in an exception, after a cleanup in
\* which an unlink failed and another removed its file
C14_Witness ==
    /\ ChunkedFinished
    /\ SplitReturnedChunks
    /\ o_ret.kind = "raise"
    /\ cl_raised # {}
    /\ \E k \in 1..Len(o_chunks) : o_chunks[k].path \notin files

\* C15 (as claimed): an exception in the progress callback does not change
\* the control flow: the chunk it was called for is transcribed next, and a
\* run in which only callbacks failed still calls merge_results.
C15_CallbackFailureIgnored ==
    /\ \A p \in EventsOf("callback raised") :
          p < Len(events) => (events[p + 1].op = "start" /\ events[p + 1].i = events[p].i)
    /\ (ChunkedFinished /\ EventsOf("callback raised") # {} /\ EventsOf("raised") = {})
          => EventsOf("merge") # {}

\* C17: the chunks are transcribed one at a time in index order, chunk i + 1
\* only after the result of chunk i has come; merge_results is handed a results
\* list and an offsets list as long as the chunk list, position i holding the
\* result and the start_sec of chunk i; after a transcription raised, no chunk
\* is transcribed and merge_results is not called.
C17_SequentialInOrder ==
    /\ \A p \in EventsOf("start") :
          /\ events[p].i = Cardinality({ q \in EventsOf("start") : q < p })
          /\ events[p].i > 0 =>
                \E q \in 1..(p - 1) : events[q].op = "result" /\ events[q].i = events[p].i - 1
    /\ EventsOf("merge") # {} =>
          /\ Len(results) = Len(o_chunks)
          /\ Len(chunk_offsets) = Len(o_chunks)
          /\ \A k \in 1..Len(o_chunks) :
                /\ chunk_offsets[k] = o_chunks[k].start_sec
                /\ o_chunks[k].index = k - 1
                /\ \E q \in EventsOf("result") : events[q].i = k - 1 /\ events[q].value = results[k]
    /\ \A p \in EventsOf("raised") :
          \A q \in (p + 1)..Len(events) : events[q].op \notin { "start", "merge" }

\* a run of two or more chunks, all transcribed, whose merge returned
C17_Witness ==
    /\ opc = "done"
    /\ Len(o_chunks) >= 2
    /\ EventsOf("merge") # {}
    /\ o_ret.kind = "return"


(***************************************************************************)
(* Two runs at once on one machine.  This run is transcribe_chunked on     *)
(* in/a.mp3, a file of twice the threshold.  The other run, in another    *)
(* process, is a transcribe_chunked on elsewhere/a.mp3: its split_audio    *)
(* exports MaxOtherChunks chunks, or fails at one and rolls back, and      *)
(* after its transcriptions, which touch no file, its cleanup_chunks       *)
(* unlinks them.  Both runs call split_audio without scratchpad_dir, so    *)
(* both use the directory of the system.  No step of either run waits for  *)
(* or looks at the other: the steps interleave in any order.               *)
(***************************************************************************)
MaxOtherChunks == 2

OtherInputFile == << Name("elsewhere", ""), Name("a", ".mp3") >>

\* line 105 in the other run: its chunk_path for chunk i
OtherChunkPath(i) == ChunkPath(DefaultScratchpad, OtherInputFile, i)

\* lines 104-122 in the other run: chunk other_i is exported; export opens the
\* path for writing whether or not a file is there
OtherExport ==
    /\ other_pc = "export"
    /\ other_i < MaxOtherChunks
    /\ files' = files \cup { OtherChunkPath(other_i) }
    /\ clobbered' = clobbered \cup ({ OtherChunkPath(other_i) } \cap files)
    /\ other_i' = other_i + 1
    /\ UNCHANGED << dirs, pvars, cvars, mvars, avars, rvars, dvars, ovars, other_pc >>

\* lines 110-114 in the other run: the export of chunk other_i fails and the
\* chunks it exported so far are unlinked
OtherExportFails ==
    /\ other_pc = "export"
    /\ other_i < MaxOtherChunks
    /\ files' = files \ { OtherChunkPath(k) : k \in 0..(other_i - 1) }
    /\ other_pc' = "raised"
    /\ UNCHANGED << dirs, pvars, cvars, mvars, avars, rvars, dvars, ovars, other_i, clobbered >>

\* line 124 in the other run, and its transcriptions: cleanup_chunks is called
OtherCallCleanup ==
    /\ other_pc = "export"
    /\ other_i = MaxOtherChunks
    /\ other_pc' = "cleanup"
    /\ other_i' = 0
    /\ UNCHANGED << fsvars, pvars, cvars, mvars, avars, rvars, dvars, ovars, clobbered >>

\* lines 186-194 in the other run: Path(chunk.path).unlink(missing_ok=True) on its
\* chunk other_i; after the last one cleanup_chunks returns
OtherCleanupUnlink ==
    /\ other_pc = "cleanup"
    /\ other_i < MaxOtherChunks
    /\ files' = files \ { OtherChunkPath(other_i) }
    /\ other_i' = other_i + 1
    /\ other_pc' = IF other_i' = MaxOtherChunks THEN "done" ELSE "cleanup"
    /\ UNCHANGED << dirs, pvars, cvars, mvars, avars, rvars, dvars, ovars, clobbered >>

InitConcurrent ==
    /\ files = { InputFile, OtherInputFile }
    /\ dirs = { << InputDir >>, << Name("elsewhere", "") >> }
    /\ audio_path = InputFile
    /\ scratchpad_dir = NoDir
    /\ max_size_mb = 1
    /\ st_size = 2 * max_size_mb * SizeUnitsPerMB
    /\ duration_ms \in 2..MaxRunDurationMs
    /\ overlap_ticks = 0
    /\ pc = "idle"
    /\ chunk_duration_ms = 0
    /\ overlap_ms = 0
    /\ start_ms = 0
    /\ chunks = << >>
    /\ chunk_results = << >>
    /\ ret = NoOutcome
    /\ IdleCleanup
    /\ IdleMerge
    /\ IdleAllocation
    /\ IdleDurationPlanner
    /\ opc = "call"
    /\ has_callback = FALSE
    /\ o_model = "gpt-4o-transcribe"
    /\ o_format = "json"
    /\ prompt = FALSE
    /\ o_chunks = << >>
    /\ o_i = 0
    /\ o_pending = NoOutcome
    /\ o_ret = NoOutcome
    /\ events = << >>
    /\ other_pc = "export"
    /\ other_i = 0
    /\ clobbered = {}

NextConcurrent ==
    \/ ChunkedCallSplit
    \/ LoadFails
    \/ EnterLoop
    \/ LoopIteration
    \/ LoopExit
    \/ MakeScratchpad
    \/ ExportChunk
    \/ ExportFails
    \/ ExportRollbackFails
    \/ ReturnChunks
    \/ ChunkedSplitRaised
    \/ ChunkedSplitReturned
    \/ NoProgressCallback
    \/ TranscribeChunkCall
    \/ TranscribeChunkRaises
    \/ TranscribeChunkReturns
    \/ ChunkedCallMerge
    \/ MergeSortRaises
    \/ MergeReturns
    \/ ChunkedMergeEnded
    \/ ChunkedCallCleanup
    \/ CleanupUnlink
    \/ CleanupUnlinkRaises
    \/ CleanupReturn
    \/ ChunkedFinish
    \/ OtherExport
    \/ OtherExportFails
    \/ OtherCallCleanup
    \/ OtherCleanupUnlink

SpecConcurrent == InitConcurrent /\ [][NextConcurrent]_vars

\* this run is at chunk o_i of its loop, which it has not transcribed yet
AwaitsTranscription == opc \in { "loop", "transcribe", "transcribing" } /\ o_i < Len(o_chunks)

\* the other run has unlinked, in its rollback or its cleanup
OtherRunUnlinked == other_pc \in { "raised", "cleanup", "done" }

\* C28: two runs with one working directory and sources of the same stem and
\* suffix name their chunk files alike, index by index, and nothing keeps one
\* from the files of the other: what the other run's exports write over are chunk
\* files of this run, and a chunk file that this run exported and has not yet
\* transcribed can be gone, through the rollback or the cleanup of the other run
\* and through nothing else; this run then fails with AudioFileNotFoundError.
C28_ConcurrentRunsShareChunkPaths ==
    /\ \A i \in 0..(Len(chunks) + MaxOtherChunks) :
          ChunkPath(Scratchpad, audio_file, i) = ChunkPath(Scratchpad, OtherInputFile, i)
    /\ \A k \in 1..Len(chunk_results) :
          chunk_results[k].index < MaxOtherChunks => chunk_results[k].path = OtherChunkPath(chunk_results[k].index)
    /\ clobbered \subseteq OwnChunkPaths
    /\ AwaitsTranscription =>
          \A k \in (o_i + 1)..Len(o_chunks) : o_chunks[k].path \notin files => OtherRunUnlinked
    /\ (o_pending.exc = "AudioFileNotFoundError" \/ o_ret.exc = "AudioFileNotFoundError") => OtherRunUnlinked

\* C28's case: the other run wrote over a chunk file that this run had exported and
\* not yet transcribed, then deleted it, and this run's transcription of that
\* chunk is failing with AudioFileNotFoundError
C28_Witness ==
    /\ opc = "finally"
    /\ o_pending.exc = "AudioFileNotFoundError"
    /\ o_i < Len(o_chunks)
    /\ o_chunks[o_i + 1].path \in clobbered
    /\ o_chunks[o_i + 1].path \notin files
    /\ OtherRunUnlinked
====
